---- MODULE Spec2Model ----
(***************************************************************************)
(* A model of thediveo/spacetest's namespace broker ("spacer"): the        *)
(* Spacemaker creation primitives (Room, Subspace), the unix domain socket *)
(* helpers they build on, the service loop (Serve) and the client (do).    *)
(*                                                                         *)
(* File descriptors are numbers into a per-process descriptor table; the   *)
(* kernel always hands out the lowest free number.  A uint64 set of clone  *)
(* flags is modelled as the set of the flags that are set in it.           *)
(***************************************************************************)
EXTENDS Integers, Sequences, FiniteSets, TLC

\* ------------------------------------------------------------------ bounds

\* highest descriptor number of the modelled descriptor table
MaxFd == 23
\* the requests one client sends in a test node
MaxRequests == 2

\* ------------------------------------------------------- namespace types

\* the six flat types, in the order Room processes them
RoomOrder == <<"cgroup", "ipc", "mnt", "net", "time", "uts">>

validSpaces_withUser == {"cgroup", "ipc", "mnt", "net", "time", "uts", "user"}

\* the flags a RoomsRequest may carry
validSpaces == {"cgroup", "ipc", "mnt", "net", "time", "uts"}

subSpaces_withNet == {"user", "pid", "net"}

\* the flags a SubspaceRequest may carry
subSpaces == {"user", "pid"}

\* every flag a request's Spaces may have set: the eight namespace flags and
\* "other", standing for any bit that is no namespace flag
AllBits == validSpaces \cup subSpaces \cup {"other"}

\* the handle-valued fields of the responses: RoomsResponse has one field per
\* flat type, SubspaceResponse has Conn, User and PID
RoomFields == {"cgroup", "ipc", "mnt", "net", "time", "uts"}
SubFields == {"conn", "user", "pid"}
Fields == RoomFields \cup SubFields

\* ------------------------------------------------------ descriptor table

FdNums == 0..MaxFd

NoFd == [kind |-> "closed", typ |-> "", id |-> 0]
StdObj == [kind |-> "std", typ |-> "", id |-> 0]
NsObj(typ, which) == [kind |-> "ns", typ |-> typ, id |-> which]
SockObj(end, pair) == [kind |-> "sock", typ |-> end, id |-> pair]

\* a process starts with stdin, stdout and stderr open
StdTable == [n \in FdNums |-> IF n <= 2 THEN StdObj ELSE NoFd]

OpenFds(t) == {n \in FdNums : t[n] # NoFd}
FreeCount(t) == Cardinality(FdNums \ OpenFds(t))

\* the kernel allocates the lowest free descriptor number
Alloc(t) == CHOOSE n \in FdNums : t[n] = NoFd /\ \A m \in FdNums : m < n => t[m] # NoFd

\* open(2), dup(2), socketpair(2): a new descriptor referring to obj
Open(t, obj) == [fd |-> Alloc(t), t |-> [t EXCEPT ![Alloc(t)] = obj]]

\* close(2); closing a number that is not open fails with EBADF, which every
\* caller in the code ignores
Close(t, fd) == IF fd \in FdNums THEN [t EXCEPT ![fd] = NoFd] ELSE t

\* ioctl(fd, NS_GET_NSTYPE): the type of the namespace fd refers to, "" when
\* fd is no namespace descriptor
NsType(t, fd) == IF fd \in FdNums /\ t[fd].kind = "ns" THEN t[fd].typ ELSE ""

\* ------------------------------------------------------------- responses

ZeroH == [f \in Fields |-> 0]

ErrorResponse(reason) == [tag |-> "ErrorResponse", h |-> ZeroH, reason |-> reason]
RoomsResponse(h) == [tag |-> "RoomsResponse", h |-> h, reason |-> <<>>]
SubspaceResponse(h) == [tag |-> "SubspaceResponse", h |-> h, reason |-> <<>>]
NoResp == [tag |-> "none", h |-> ZeroH, reason |-> <<>>]

\* a fixed reason text, and a reason text that ends in an error's text
Reason(text) == <<text, "">>
ReasonErr(text, err) == <<text, err>>

\* ---------------------------------------------------------- newNamespace

\* the steps of newNamespace that can fail; "none" lets every step succeed
NsFaults(typ) ==
    {"none", "opencaller", "unshare", "opennew"}
        \cup (IF typ = "mnt" THEN {"unsharefs", "mount"} ELSE {})

\* the steps of newNamespace in the order of the code, named as the faults
\* are: it locks the go routine to its thread, opens the thread's current
\* namespace, for a mount namespace unshares the filesystem attributes,
\* unshares the namespace, for a mount namespace remounts / as private, and
\* opens the new namespace
nsSteps(typ) ==
    <<"lock", "opencaller">>
        \o (IF typ = "mnt" THEN <<"unsharefs">> ELSE <<>>)
        \o <<"unshare">>
        \o (IF typ = "mnt" THEN <<"mount">> ELSE <<>>)
        \o <<"opennew">>

\* the steps newNamespace gets to when the step fault fails: those up to and
\* including the failing one; all of them when none of them fails
nsAttempted(typ, fault) ==
    IF \A i \in 1..Len(nsSteps(typ)) : nsSteps(typ)[i] # fault
    THEN nsSteps(typ)
    ELSE SubSeq(nsSteps(typ), 1,
                CHOOSE i \in 1..Len(nsSteps(typ)) : nsSteps(typ)[i] = fault)

nsDeferred_closeOnly == <<"close">>

\* the deferred function of newNamespace: switch the thread back into the
\* namespace it was in, and close the descriptor of that namespace
nsDeferred == <<"setns", "close">>

\* newNamespace once the new namespace was opened as newns: return it, the
\* deferred function closing the caller's namespace descriptor
newNamespaceOpened(callerns, typ, newns) ==
    [fd |-> newns.fd, err |-> "", t |-> Close(newns.t, callerns.fd),
     sys |-> nsAttempted(typ, "none") \o nsDeferred]

\* newNamespace once the caller's namespace was opened as callerns: unshare
\* and open the new namespace; the deferred function closes the caller's
\* namespace descriptor on every path
newNamespaceUnshare(callerns, typ, fault) ==
    IF fault # "none"
    THEN [fd |-> 0, err |-> fault, t |-> Close(callerns.t, callerns.fd),
          sys |-> nsAttempted(typ, fault) \o nsDeferred]
    ELSE newNamespaceOpened(callerns, typ, Open(callerns.t, NsObj(typ, "new")))

\* newNamespace: open the thread's current namespace, unshare, open the new
\* namespace and return it
newNamespace(t, typ, fault) ==
    IF fault = "opencaller"
    THEN [fd |-> 0, err |-> fault, t |-> t, sys |-> nsAttempted(typ, fault)]
    ELSE newNamespaceUnshare(Open(t, NsObj(typ, "caller")), typ, fault)

\* ------------------------------------------------------------------ Room

\* Room's working state: the descriptor table, the response under
\* construction, the error message so far and the workers started so far
NoUnits == [typ \in RoomFields |-> [sys |-> <<>>, fd |-> 0, err |-> ""]]

RoomAcc(t) ==
    [t |-> t, h |-> ZeroH, errmsg |-> <<>>, workers |-> 0, sched |-> <<>>,
     units |-> NoUnits]

\* all the units are started before Room receives the first result
startAndWait_fanOut(typ, sched) ==
    LET starts == SelectSeq(sched, LAMBDA e : e[1] = "go")
        waits  == SelectSeq(sched, LAMBDA e : e[1] = "receive")
    IN  starts \o <<<<"go", typ>>>> \o waits \o <<<<"receive", typ>>>>

\* what the unshare closure of Room schedules for one type: it starts the
\* worker with a go statement and then receives the worker's result from
\* the channel, which blocks Room until the worker has sent it
startAndWait(typ, sched) ==
    sched \o <<<<"go", typ>>, <<"receive", typ>>>>

\* the unshare closure of Room once the worker's result res arrived: record
\* the handle or the failure
unshareResult(typ, acc, res) ==
    IF res.err # ""
    THEN [acc EXCEPT !.t = res.t,
                     !.errmsg = Append(@, ReasonErr(typ, res.err)),
                     !.workers = @ + 1,
                     !.sched = startAndWait(typ, @),
                     !.units[typ] = [sys |-> res.sys, fd |-> res.fd, err |-> res.err]]
    ELSE [acc EXCEPT !.t = res.t,
                     !.h[typ] = res.fd,
                     !.workers = @ + 1,
                     !.sched = startAndWait(typ, @),
                     !.units[typ] = [sys |-> res.sys, fd |-> res.fd, err |-> res.err]]

unshare_alwaysNet(typ, spaces, faults, acc) ==
    IF typ \notin spaces
    THEN acc
    ELSE unshareResult(typ, acc, newNamespace(acc.t, "net", faults[typ]))

\* the unshare closure of Room, for one type: start a worker that runs
\* newNamespace and wait for its result
unshare(typ, spaces, faults, acc) ==
    IF typ \notin spaces
    THEN acc
    ELSE unshareResult(typ, acc, newNamespace(acc.t, typ, faults[typ]))

RECURSIVE closeRoomsFrom(_, _, _)
closeRoomsFrom(i, t, h) ==
    IF i > Len(RoomOrder)
    THEN t
    ELSE closeRoomsFrom(i + 1,
                        IF h[RoomOrder[i]] > 0 THEN Close(t, h[RoomOrder[i]]) ELSE t,
                        h)

closeRooms_skipsFirst(t, h) == closeRoomsFrom(2, t, h)

\* Room's cleanup when any type failed: close every handle obtained
closeRooms(t, h) == closeRoomsFrom(1, t, h)

\* the end of Room, after the six calls of unshare left acc
RoomReturn(acc) ==
    IF acc.errmsg # <<>>
    THEN [resp |-> ErrorResponse(acc.errmsg),
          t |-> closeRooms(acc.t, acc.h),
          workers |-> acc.workers, sched |-> acc.sched, units |-> acc.units]
    ELSE [resp |-> RoomsResponse(acc.h), t |-> acc.t, workers |-> acc.workers,
          sched |-> acc.sched, units |-> acc.units]

Room(t, spaces, faults) ==
    IF spaces \ validSpaces # {}
    THEN [resp |-> ErrorResponse(<<Reason("out of space")>>), t |-> t, workers |-> 0,
          sched |-> <<>>, units |-> NoUnits]
    ELSE IF spaces \cap validSpaces = {}
    THEN [resp |-> ErrorResponse(<<Reason("no space requested")>>), t |-> t, workers |-> 0,
          sched |-> <<>>, units |-> NoUnits]
    ELSE RoomReturn(
             unshare("uts", spaces, faults,
             unshare("time", spaces, faults,
             unshare("net", spaces, faults,
             unshare("mnt", spaces, faults,
             unshare("ipc", spaces, faults,
             unshare("cgroup", spaces, faults, RoomAcc(t))))))))

\* ------------------------------------------------------------------- uds

\* a nil *Conn; a non-nil Conn is modelled by the descriptor it wraps
Nil == -1

\* the steps of NewUnixConn that can fail
ConnFaults == {"none", "packetconn", "notunix"}

\* NewUnixConn once net.FilePacketConn made its duplicate netconn of the
\* descriptor: the deferred close of the os.File closes udsfd
NewUnixConnDup(netconn, udsfd, fault) ==
    IF fault = "notunix"
    THEN [conn |-> Nil, err |-> "not a unix domain socket",
          t |-> Close(Close(netconn.t, netconn.fd), udsfd)]
    ELSE [conn |-> netconn.fd, err |-> "", t |-> Close(netconn.t, udsfd)]

\* NewUnixConn: wrap udsfd into an os.File, have net.FilePacketConn make its
\* own duplicate of the descriptor, and close the os.File (and with it udsfd)
\* when returning
NewUnixConn(t, udsfd, fault) ==
    IF udsfd < 0
    THEN [conn |-> Nil, err |-> "not a file descriptor", t |-> t]
    ELSE IF fault = "packetconn"
    THEN [conn |-> Nil, err |-> fault, t |-> Close(t, udsfd)]
    ELSE NewUnixConnDup(Open(t, t[udsfd]), udsfd, fault)

\* the steps of NewPair that can fail
PairFaults == {"none", "socketpair", "newconn0", "newconn1"}

\* socketpair(2): two connected descriptors, o0 and o1
SocketpairOf(o0, o1) == [fd0 |-> o0.fd, fd1 |-> o1.fd, t |-> o1.t]

Socketpair(t, pair) ==
    SocketpairOf(Open(t, SockObj("dupond", pair)),
                 Open(Open(t, SockObj("dupond", pair)).t, SockObj("dupont", pair)))

\* NewPair once both descriptors were wrapped, as c0 and c1
NewPairSecond(c0, c1) ==
    IF c1.err # ""
    THEN [dupond |-> Nil, dupont |-> Nil, err |-> c1.err,
          t |-> Close(c1.t, c0.conn), pairs |-> 1]
    ELSE [dupond |-> c0.conn, dupont |-> c1.conn, err |-> "",
          t |-> c1.t, pairs |-> 1]

NewPairFirst_leaks(fds, c0, fault) ==
    IF c0.err # ""
    THEN [dupond |-> Nil, dupont |-> Nil, err |-> c0.err, t |-> c0.t, pairs |-> 1]
    ELSE NewPairSecond(c0,
             NewUnixConn(c0.t, fds.fd1,
                         IF fault = "newconn1" THEN "packetconn" ELSE "none"))

\* NewPair once the first descriptor was wrapped, as c0
NewPairFirst(fds, c0, fault) ==
    IF c0.err # ""
    THEN [dupond |-> Nil, dupont |-> Nil, err |-> c0.err,
          t |-> Close(c0.t, fds.fd1), pairs |-> 1]
    ELSE NewPairSecond(c0,
             NewUnixConn(c0.t, fds.fd1,
                         IF fault = "newconn1" THEN "packetconn" ELSE "none"))

\* NewPair once socketpair(2) returned fds
NewPairFds(fds, fault) ==
    NewPairFirst(fds,
        NewUnixConn(fds.t, fds.fd0,
                    IF fault = "newconn0" THEN "packetconn" ELSE "none"),
        fault)

\* NewPair: socketpair(2), then a Conn for each of the two descriptors
NewPair(t, fault, pair) ==
    IF fault = "socketpair"
    THEN [dupond |-> Nil, dupont |-> Nil, err |-> fault, t |-> t, pairs |-> 0]
    ELSE NewPairFds(Socketpair(t, pair), fault)

\* (*Conn).Close, promoted from the embedded *net.UnixConn: calling it on a
\* nil *Conn dereferences the nil pointer and panics
ConnClose(t, conn) ==
    IF conn = Nil
    THEN [panic |-> TRUE, t |-> t]
    ELSE [panic |-> FALSE, t |-> Close(t, conn)]

\* (*Conn).File: an os.File on a duplicate of the connection's descriptor
ConnFile(t, conn) == Open(t, t[conn])

\* -------------------------------------------------------------- Subspace

\* the steps of Subspace that can fail, for a request for spaces
SubFaults(spaces) ==
    PairFaults \cup {"dupontfile", "start", "dupondfile", "dup"}
        \cup (IF "user" \in spaces THEN {"openuser"} ELSE {})
        \cup (IF "pid" \in spaces THEN {"openpid"} ELSE {})

Child_unreaped(flags, pair) == [cloneflags |-> flags, pair |-> pair, waits |-> 0]

\* a started child process: the clone flags it was started with, the socket
\* pair whose dupont end it inherited as descriptor 3, and the background go
\* routines Subspace started to wait for it
Child(flags, pair) == [cloneflags |-> flags, pair |-> pair, waits |-> 1]

\* what Subspace holds while it runs: both ends of the socket pair, the
\* os.Files on duplicates of them (Nil while not obtained), the child
\* started and the socket pairs created
Held(np) ==
    [dupond |-> np.dupond, dupont |-> np.dupont, dupontf |-> Nil,
     dupondf |-> Nil, child |-> <<>>, pairs |-> np.pairs]

FileClose_leaks(t, f) == t

\* closing an os.File that was never obtained is not deferred
FileClose(t, f) == IF f = Nil THEN t ELSE Close(t, f)

\* the last deferred function of Subspace to run: dupont.Close()
SubspaceDeferDupont(resp, c1, c2, held) ==
    IF c1.panic \/ c2.panic
    THEN [resp |-> NoResp, t |-> c1.t, panic |-> TRUE, child |-> held.child,
          pairs |-> held.pairs]
    ELSE [resp |-> resp, t |-> c2.t, panic |-> FALSE, child |-> held.child,
          pairs |-> held.pairs]

\* the deferred function of Subspace that closes both ends of the pair,
\* dupond first
SubspaceDeferDupond(resp, c1, held) ==
    SubspaceDeferDupont(resp, c1, ConnClose(c1.t, held.dupont), held)

\* what Subspace returns, after its deferred functions ran in reverse order
\* of their registration: dupondf, dupontf, then both ends of the pair
SubspaceReturn(resp, t, held) ==
    SubspaceDeferDupond(resp,
        ConnClose(FileClose(FileClose(t, held.dupondf), held.dupontf), held.dupond),
        held)

\* Subspace once the namespaces of the child were opened, as user and pid
\* (descriptor 0 for one that was not requested)
SubspaceOpened(spaces, fault, connfd, user, pid, held) ==
    IF "user" \in spaces /\ fault = "openuser"
    THEN SubspaceReturn(
             ErrorResponse(<<ReasonErr("failed to determine new user namespace, reason: ", fault)>>),
             Close(connfd.t, connfd.fd), held)
    ELSE IF "pid" \in spaces /\ fault = "openpid"
    THEN SubspaceReturn(
             ErrorResponse(<<ReasonErr("failed to determine new PID namespace, reason: ", fault)>>),
             Close(Close(user.t, user.fd), connfd.fd), held)
    ELSE SubspaceReturn(
             SubspaceResponse([ZeroH EXCEPT !["conn"] = connfd.fd,
                                            !["user"] = user.fd,
                                            !["pid"] = pid.fd]),
             pid.t, held)

\* Subspace once the user namespace of the child was opened (when requested)
SubspaceUser(spaces, fault, connfd, user, held) ==
    SubspaceOpened(spaces, fault, connfd, user,
        IF "pid" \in spaces
        THEN Open(user.t, NsObj("pid", "new"))
        ELSE [fd |-> 0, t |-> user.t],
        held)

\* Subspace once the client's end was duplicated into connfd
SubspaceDup(spaces, fault, connfd, held) ==
    SubspaceUser(spaces, fault, connfd,
        IF "user" \in spaces
        THEN Open(connfd.t, NsObj("user", "new"))
        ELSE [fd |-> 0, t |-> connfd.t],
        held)

\* Subspace once dupond.File() returned dupondf
SubspaceDupondFile(spaces, fault, dupondf, held) ==
    IF fault = "dup"
    THEN SubspaceReturn(
             ErrorResponse(<<ReasonErr("failed to fetch client fd, reason: ", fault)>>),
             dupondf.t, [held EXCEPT !.dupondf = dupondf.fd])
    ELSE SubspaceDup(spaces, fault, Open(dupondf.t, dupondf.t[dupondf.fd]),
                     [held EXCEPT !.dupondf = dupondf.fd])

\* Subspace from the point where the child was started
SubspaceStarted(t, spaces, fault, held) ==
    IF fault = "dupondfile"
    THEN SubspaceReturn(
             ErrorResponse(<<ReasonErr("failed to fetch client *os.File, reason: ", fault)>>),
             t, held)
    ELSE SubspaceDupondFile(spaces, fault, ConnFile(t, held.dupond), held)

cloneflags_all(spaces) == subSpaces

\* the Cloneflags of the child's SysProcAttr
cloneflags(spaces) == spaces \cap subSpaces

\* Subspace once dupont.File() returned dupontf: start the child
SubspaceDupontFile(spaces, fault, pair, dupontf, held) ==
    IF fault = "start"
    THEN SubspaceReturn(
             ErrorResponse(<<ReasonErr("failed to start sub service, reason: ", fault)>>),
             dupontf.t, [held EXCEPT !.dupontf = dupontf.fd])
    ELSE SubspaceStarted(dupontf.t, spaces, fault,
                         [held EXCEPT !.dupontf = dupontf.fd,
                                      !.child = <<Child(cloneflags(spaces), pair)>>])

\* Subspace once NewPair returned np; the closing of both ends is deferred
\* before np.err is looked at
SubspacePair(spaces, fault, pair, np) ==
    IF np.err # ""
    THEN SubspaceReturn(
             ErrorResponse(<<ReasonErr("failed to create unix domain socket pair, reason: ", np.err)>>),
             np.t, Held(np))
    ELSE IF fault = "dupontfile"
    THEN SubspaceReturn(
             ErrorResponse(<<ReasonErr("failed to fetch service *os.File, reason: ", fault)>>),
             np.t, Held(np))
    ELSE SubspaceDupontFile(spaces, fault, pair, ConnFile(np.t, np.dupont), Held(np))

Subspace(t, spaces, fault, pair) ==
    IF spaces \ subSpaces # {}
    THEN [resp |-> ErrorResponse(<<Reason("out of space")>>), t |-> t,
          panic |-> FALSE, child |-> <<>>, pairs |-> 0]
    ELSE IF spaces \cap subSpaces = {}
    THEN [resp |-> ErrorResponse(<<Reason("no space requested")>>), t |-> t,
          panic |-> FALSE, child |-> <<>>, pairs |-> 0]
    ELSE SubspacePair(spaces, fault, pair, NewPair(t, fault, pair))

\* ----------------------------------------------------------- wire codec

\* gob encodes a struct as the fields whose value is not the zero value;
\* decoding starts from the zero struct and sets the fields that were sent
Encode(resp) ==
    [tag |-> resp.tag,
     fields |-> {<<f, resp.h[f]>> : f \in {g \in Fields : resp.h[g] # 0}},
     reason |-> resp.reason]

Decode_asRoomsResponse(payload) ==
    [tag |-> "RoomsResponse", h |-> ZeroH, reason |-> payload.reason]

Decode(payload) ==
    [tag |-> payload.tag,
     h |-> [f \in Fields |->
               IF \E p \in payload.fields : p[1] = f
               THEN (CHOOSE p \in payload.fields : p[1] = f)[2]
               ELSE 0],
     reason |-> payload.reason]

NoPayload == Encode(NoResp)

\* -------------------------------------------------- auxiliary descriptors

\* auxiliaryFds.borrow: move an open (> 0) handle from its field into the
\* list of descriptors to send, zeroing the field
borrow_nonnegative(acc, f) ==
    IF acc.h[f] < 0
    THEN acc
    ELSE [h |-> [acc.h EXCEPT ![f] = 0], fds |-> Append(acc.fds, acc.h[f])]

borrow(acc, f) ==
    IF acc.h[f] <= 0
    THEN acc
    ELSE [h |-> [acc.h EXCEPT ![f] = 0], fds |-> Append(acc.fds, acc.h[f])]

\* RoomsResponse.EncodeFds
RoomsEncodeFds(h) ==
    borrow(borrow(borrow(borrow(borrow(borrow([h |-> h, fds |-> <<>>],
        "cgroup"), "ipc"), "mnt"), "net"), "time"), "uts")

\* SubspaceResponse.EncodeFds
SubspaceEncodeFds(h) ==
    borrow(borrow(borrow([h |-> h, fds |-> <<>>], "conn"), "user"), "pid")

\* the response as an api.FdsEncoder, when it is one
EncodeFds(resp) ==
    CASE resp.tag = "RoomsResponse" -> RoomsEncodeFds(resp.h)
      [] resp.tag = "SubspaceResponse" -> SubspaceEncodeFds(resp.h)
      [] OTHER -> [h |-> resp.h, fds |-> <<>>]

RoomsDecodeFrom_keeps(i, fds, h, t) ==
    [h |-> [f \in Fields |->
               IF \E j \in i..Len(fds) : NsType(t, fds[j]) = f /\ f \in RoomFields
               THEN fds[CHOOSE j \in i..Len(fds) :
                            /\ NsType(t, fds[j]) = f
                            /\ \A k \in (j + 1)..Len(fds) : NsType(t, fds[k]) # f]
               ELSE h[f]],
     t |-> t, panic |-> FALSE]

RECURSIVE RoomsDecodeFrom(_, _, _, _)
RoomsDecodeFrom(i, fds, h, t) ==
    IF i > Len(fds)
    THEN [h |-> h, t |-> t, panic |-> FALSE]
    ELSE IF NsType(t, fds[i]) \in RoomFields
    THEN RoomsDecodeFrom(i + 1, fds, [h EXCEPT ![NsType(t, fds[i])] = fds[i]], t)
    ELSE RoomsDecodeFrom(i + 1, fds, h, Close(t, fds[i]))

\* RoomsResponse.DecodeFds
RoomsDecodeFds(h, fds, t) == RoomsDecodeFrom(1, fds, h, t)

RECURSIVE SubspaceDecodeFrom(_, _, _, _)
SubspaceDecodeFrom(i, fds, h, t) ==
    IF i > Len(fds)
    THEN [h |-> h, t |-> t, panic |-> FALSE]
    ELSE IF NsType(t, fds[i]) \in {"user", "pid"}
    THEN SubspaceDecodeFrom(i + 1, fds, [h EXCEPT ![NsType(t, fds[i])] = fds[i]], t)
    ELSE SubspaceDecodeFrom(i + 1, fds, h, Close(t, fds[i]))

SubspaceDecodeFds_typed(h, fds, t) == SubspaceDecodeFrom(1, fds, h, t)

\* SubspaceResponse.DecodeFds: fds[0] is the connection, whatever it is;
\* indexing an empty slice panics
SubspaceDecodeFds(h, fds, t) ==
    IF fds = <<>>
    THEN [h |-> h, t |-> t, panic |-> TRUE]
    ELSE SubspaceDecodeFrom(2, fds, [h EXCEPT !["conn"] = fds[1]], t)

\* --------------------------------------------------- sending and receiving

\* the machine word size in bytes, which is the alignment of control messages
SizeofPtr == 8
\* the size of the control message header
SizeofCmsghdr == 16

cmsgAlignOf(len) == ((len + SizeofPtr - 1) \div SizeofPtr) * SizeofPtr

\* unix.CmsgSpace: the bytes a control message with datalen bytes occupies
CmsgSpace(datalen) == cmsgAlignOf(SizeofCmsghdr) + cmsgAlignOf(datalen)

\* the descriptors the kernel can deliver into a control buffer of oobsize
\* bytes: what is left after the header, in 4 byte descriptors
FdCapacity(oobsize) == (oobsize - SizeofCmsghdr) \div 4

Min(a, b) == IF a < b THEN a ELSE b

RECURSIVE install(_, _, _, _)
install(i, n, oob, acc) ==
    IF i > n
    THEN acc
    ELSE LET o == Open(acc.t, oob[i])
         IN  install(i + 1, n, oob, [fds |-> Append(acc.fds, o.fd), t |-> o.t])

\* Conn.ReceiveWithFds for a message that carries the descriptions oob: the
\* kernel installs as many of them as fit into the control buffer, each at
\* the lowest free number, and discards the rest
ReceiveWithFds(t, oob, maxfds) ==
    LET n == Min(Len(oob), FdCapacity(CmsgSpace(maxfds * 4)))
        got == install(1, n, oob, [fds |-> <<>>, t |-> t])
    IN  [fds |-> got.fds, t |-> got.t, dropped |-> Len(oob) - n]

\* the descriptions a SendWithFds of fds puts in flight
InFlight(t, fds) == [i \in 1..Len(fds) |-> t[fds[i]]]

\* closeAll, but for the first descriptor only
closeAll_first(i, fds, t) ==
    IF fds = <<>> THEN t ELSE Close(t, fds[1])

\* close the descriptors fds[i], fds[i+1], ... one after the other
RECURSIVE closeAll(_, _, _)
closeAll(i, fds, t) ==
    IF i > Len(fds) THEN t ELSE closeAll(i + 1, fds, Close(t, fds[i]))

\* --------------------------------------------------------------- Execute

\* the types of namespaces a handle can refer to
ExecTypes == {"cgroup", "ipc", "mnt", "net", "pid", "time", "user", "uts"}

\* a failed Expect fails the test: it panics with its message, here the text
\* and the name of the namespace type it has in it ("" when it has none)
NoPanic == <<>>
Failure(text, typ) == <<text, typ>>

\* an OS-level thread with the go routine that runs on it: the namespace it
\* is attached to for each type, the calls of LockOSThread not yet undone, and
\* whether it has filesystem attributes of its own
NewThread(locks) ==
    [att |-> [typ \in ExecTypes |-> "host"], locks |-> locks, fs |-> FALSE]

\* the thread of a go routine that entered a namespace of its own of the type:
\* EnterTransient locked it and unshared the namespace
Entered(th, typ) == [th EXCEPT !.locks = @ + 1, !.att[typ] = "t"]

\* a system call or runtime call that was made, on the caller's thread or the
\* worker's
Ev(on, op, idx, typ, ns, ok) ==
    [on |-> on, op |-> op, idx |-> idx, typ |-> typ, ns |-> ns, ok |-> ok]

\* a call in progress: the descriptor table, the caller's thread, the thread
\* of the separate go routine (<<>> without one), callersNamespaces, the
\* descriptor the latest Current returned, the descriptors picked up for the
\* separate go routine, the closings Current scheduled, the calls made so
\* far, the namespaces fn found its thread attached to each time it ran, and
\* the panic under way
Running(t, th) ==
    [t |-> t, th |-> th, wth |-> <<>>, callers |-> <<>>, cur |-> Nil,
     pick |-> <<>>, cleanups |-> <<>>, sys |-> <<>>, seen |-> <<>>,
     panic |-> NoPanic]

\* the faults of one call: the switch that fails (0 for none), the
\* restorations that fail, whether fn fails, and the step of the separate go
\* routine's entry into the mount namespace that fails
ExecFaults(switch, restore, fn, mnt) ==
    [switch |-> switch, restore |-> restore, fn |-> fn, mnt |-> mnt]

Setns_keeps(th, obj) == th

\* setns(2) succeeded: the thread is attached to the namespace obj
Setns(th, obj) == [th EXCEPT !.att[obj.typ] = obj.id]

\* a thread of a multi-threaded process cannot enter a user namespace, and
\* it can enter a mount namespace only when it does not share its filesystem
\* attributes with the other threads
SetnsAllowed(th, typ) == typ # "user" /\ (typ = "mnt" => th.fs)

\* Current: open the thread's namespace of the type, and schedule the
\* closing of the descriptor for the end of the test
Current(x, typ) ==
    [x EXCEPT !.t = Open(x.t, NsObj(typ, x.th.att[typ])).t,
              !.cur = Alloc(x.t),
              !.cleanups = Append(@, Alloc(x.t))]

\* callersNamespaces = append(callersNamespaces, Current(typ))
Recorded(x) == [x EXCEPT !.callers = Append(@, x.cur)]

switched_quietly(i, fd, typ, ok, x) ==
    [x EXCEPT !.sys = Append(@, Ev("caller", "switch", i, typ, x.t[fd].id, ok)),
              !.th = IF ok THEN Setns(x.th, x.t[fd]) ELSE x.th]

\* Expect(unix.Setns(nsfd, typ)).To(Succeed(), "cannot switch into ...")
switched(i, fd, typ, ok, x) ==
    [x EXCEPT !.sys = Append(@, Ev("caller", "switch", i, typ, x.t[fd].id, ok)),
              !.th = IF ok THEN Setns(x.th, x.t[fd]) ELSE x.th,
              !.panic = IF ok THEN @ ELSE Failure("cannot switch into namespace", typ)]

\* goInAndOut's loop over othernsfds, from the handle i on
RECURSIVE attach(_, _, _, _)
attach(i, fds, f, x) ==
    IF i > Len(fds) \/ x.panic # NoPanic
    THEN x
    ELSE IF NsType(x.t, fds[i]) = ""
    THEN [x EXCEPT !.panic = Failure("cannot determine type of namespace", "")]
    ELSE attach(i + 1, fds, f,
             switched(i, fds[i], NsType(x.t, fds[i]),
                      f.switch # i /\ SetnsAllowed(x.th, NsType(x.t, fds[i])),
                      Recorded(Current(x, NsType(x.t, fds[i])))))

\* fn(), when no panic kept the call from getting there
called(on, att, f, x) ==
    IF x.panic # NoPanic
    THEN x
    ELSE [x EXCEPT !.sys = Append(@, Ev(on, "fn", 0, "", "", ~f.fn)),
                   !.seen = Append(@, att),
                   !.panic = IF f.fn THEN Failure("fn failed", "") ELSE @]

Backward_forward(n) == [j \in 1..n |-> j]

\* slices.Backward: the indices of a slice of length n, the last one first
Backward(n) == [j \in 1..n |-> n + 1 - j]

\* unix.Setns(nsfd, 0) for callersNamespaces[i]; when must is set its failure
\* fails the test with "cannot restore ... namespace", and is ignored when not
restored(i, ok, must, x) ==
    [x EXCEPT !.sys = Append(@, Ev("caller", "restore", i, x.t[x.callers[i]].typ,
                                   x.t[x.callers[i]].id, ok)),
              !.th = IF ok THEN Setns(x.th, x.t[x.callers[i]]) ELSE x.th,
              !.panic = IF ok \/ ~must
                        THEN @
                        ELSE Failure("cannot restore namespace", x.t[x.callers[i]].typ)]

\* the loop over callersNamespaces in the order given, from its j-th index
\* on; a failing Expect ends it
RECURSIVE restore(_, _, _, _, _)
restore(j, order, f, must, x) ==
    IF j > Len(order) \/ (must /\ x.panic # NoPanic)
    THEN x
    ELSE restore(j + 1, order, f, must,
                 restored(order[j], order[j] \notin f.restore, must, x))

unlocks_always(x) == TRUE

\* the deferred function gets to runtime.UnlockOSThread() when no Expect of
\* the restoring loop failed
unlocks(x) == x.panic = NoPanic

\* the end of the deferred function of goInAndOut
unlocked(x) ==
    IF unlocks(x)
    THEN [x EXCEPT !.th.locks = @ - 1,
                   !.sys = Append(@, Ev("caller", "unlock", 0, "", "", TRUE))]
    ELSE x

\* the deferred function of goInAndOut: with a panic under way restore what
\* can be restored and panic again, never unlocking the thread; otherwise
\* restore, failing the test when that fails, and unlock the thread
deferredRestore(f, x) ==
    IF x.panic # NoPanic
    THEN restore(1, Backward(Len(x.callers)), f, FALSE, x)
    ELSE unlocked(restore(1, Backward(Len(x.callers)), f, TRUE, x))

\* runtime.LockOSThread() on the caller's go routine
locked(x) ==
    [x EXCEPT !.th.locks = @ + 1,
              !.sys = Append(@, Ev("caller", "lock", 0, "", "", TRUE))]

\* fn() on the caller's go routine
calledHere(f, x) == called("caller", x.th.att, f, x)

goInAndOut(x, othernsfds, f) ==
    deferredRestore(f, calledHere(f, attach(1, othernsfds, f, locked(x))))

\* the types goSeparate takes over from the caller's thread unless a handle
\* of the type was passed
pickupTypes == <<"cgroup", "ipc", "net", "pid", "time", "uts">>

TypesOf_none(t, fds) == {}

\* the types of the handles fds
TypesOf(t, fds) == {NsType(t, fds[i]) : i \in 1..Len(fds)}

\* pickupfds = append(pickupfds, Current(typ)) for the i-th pickup type on
RECURSIVE pickedUp(_, _, _)
pickedUp(i, skip, x) ==
    IF i > Len(pickupTypes) \/ x.panic # NoPanic
    THEN x
    ELSE IF pickupTypes[i] \in skip
    THEN pickedUp(i + 1, skip, x)
    ELSE pickedUp(i + 1, skip,
             [Current(x, pickupTypes[i]) EXCEPT
                 !.pick = Append(@, Current(x, pickupTypes[i]).cur)])

\* the separate go routine: a thread of its own, locked, with filesystem
\* attributes of its own, attached to the mount namespace
entered(mntnsfd, f, x) ==
    IF f.mnt = "unshare"
    THEN [x EXCEPT !.wth = NewThread(1),
                   !.sys = Append(@, Ev("worker", "unshare", 0, "fs", "", FALSE)),
                   !.panic = Failure("cannot unshare file attributes of transient func call OS-level thread", "")]
    ELSE [x EXCEPT !.wth = IF f.mnt = "setns"
                           THEN [NewThread(1) EXCEPT !.fs = TRUE]
                           ELSE Setns([NewThread(1) EXCEPT !.fs = TRUE], x.t[mntnsfd]),
                   !.sys = @ \o <<Ev("worker", "unshare", 0, "fs", "", TRUE),
                                  Ev("worker", "switch", 0, "mnt", x.t[mntnsfd].id,
                                     f.mnt # "setns")>>,
                   !.panic = IF f.mnt = "setns"
                             THEN Failure("cannot switch into mnt namespace", "")
                             ELSE @]

\* Expect(unix.Setns(nsfd, 0)).To(Succeed(), ...) on the separate go routine
joined(i, fd, typ, ok, x) ==
    [x EXCEPT !.sys = Append(@, Ev("worker", "switch", i, typ, x.t[fd].id, ok)),
              !.wth = IF ok THEN Setns(x.wth, x.t[fd]) ELSE x.wth,
              !.panic = IF ok THEN @ ELSE Failure("cannot switch into namespace", typ)]

\* the separate go routine's loop over the handles passed and picked up, from
\* the i-th on; it skips a handle of the namespace the thread is attached to
RECURSIVE follow(_, _, _, _)
follow(i, fds, f, x) ==
    IF i > Len(fds) \/ x.panic # NoPanic
    THEN x
    ELSE IF x.t[fds[i]].id = x.wth.att[NsType(x.t, fds[i])]
    THEN follow(i + 1, fds, f, x)
    ELSE follow(i + 1, fds, f,
             joined(i, fds[i], NsType(x.t, fds[i]),
                    f.switch # i /\ SetnsAllowed(x.wth, NsType(x.t, fds[i])), x))

\* fn() on the separate go routine
calledThere(f, x) == called("worker", x.wth.att, f, x)

\* the deferred function of the separate go routine closes the descriptors
\* picked up and hands the panic, if any, to the caller, whose deferred
\* function unlocks its thread
separated(x) ==
    [x EXCEPT !.t = closeAll(1, x.pick, x.t),
              !.th.locks = @ - 1,
              !.sys = Append(@, Ev("caller", "unlock", 0, "", "", TRUE))]

\* goSeparate from the start of the separate go routine to its own return
separate(mntnsfd, othernsfds, f, x) ==
    separated(calledThere(f,
        follow(1, othernsfds \o x.pick, f, entered(mntnsfd, f, x))))

goSeparate(x, mntnsfd, othernsfds, f) ==
    separate(mntnsfd, othernsfds, f,
             pickedUp(1, TypesOf(x.t, othernsfds), locked(x)))

rejectsUser_never(typ) == FALSE

\* Execute fails the test for a handle of a user namespace
rejectsUser(typ) == typ = "user"

\* Execute's loop over the handles passed, from the i-th on: it tells the
\* mount namespace handle from the others
RECURSIVE sortedOut(_, _, _)
sortedOut(i, fds, acc) ==
    IF i > Len(fds) \/ acc.x.panic # NoPanic
    THEN acc
    ELSE IF NsType(acc.x.t, fds[i]) = ""
    THEN [acc EXCEPT !.x.panic = Failure("cannot determine type of namespace", "")]
    ELSE IF rejectsUser(NsType(acc.x.t, fds[i]))
    THEN [acc EXCEPT !.x.panic = Failure("cannot Execute() in different user namespace", "")]
    ELSE IF NsType(acc.x.t, fds[i]) = "mnt"
    THEN sortedOut(i + 1, fds, [acc EXCEPT !.mntnsfd = fds[i]])
    ELSE sortedOut(i + 1, fds, [acc EXCEPT !.othernsfds = Append(@, fds[i])])

\* Execute once its loop told the handles apart
Executed(acc, f) ==
    IF acc.x.panic # NoPanic
    THEN acc.x
    ELSE IF acc.mntnsfd >= 0
    THEN goSeparate(acc.x, acc.mntnsfd, acc.othernsfds, f)
    ELSE goInAndOut(acc.x, acc.othernsfds, f)

Execute(x, fds, f) ==
    Executed(sortedOut(1, fds, [x |-> x, mntnsfd |-> Nil, othernsfds |-> <<>>]), f)

\* ----------------------------------------------------------------- state

VARIABLES
    fdt,        \* the descriptor table of the process running the broker
    crashed,    \* a panic escaped: the process is gone
    call,       \* the latest call of Room or Subspace, with what it returned
    ctxDone,    \* the context passed to Serve is cancelled
    s_pc,       \* where the service loop is
    s_exit,     \* Serve: what it logged when it returned, "" while it runs
    s_req,      \* Serve: the request received
    s_resp,     \* Serve: the response, as EncodeFds leaves it
    s_msg,      \* Serve: the encoded response
    s_fds,      \* Serve: the descriptors sent with the response, to be closed
    c2s,        \* the requests in flight from the client to the service
    s2c,        \* the responses in flight from the service to the client
    c_pc,       \* where the client is
    c_op,       \* Client: the operation in progress
    c_result,   \* Client: what the latest operation returned
    c_fds,      \* Client: the descriptors received with the latest response
    c_sub,      \* Client: the connection of the client Subspace returned
    nreq,       \* the requests the client has sent
    cleanups,   \* the handles the client scheduled to be closed at the node's end
    recvd,      \* the requests Serve received, in order
    sent,       \* the requests whose response Serve sent, in order
    dropped,    \* the descriptors the kernel discarded on the client's receipts
    kids        \* the child services started for the session, in the order started

\* the latest call of a creation primitive: the request's Spaces, the steps
\* that were made to fail, the descriptor table before the call, the workers
\* started, the child spawned, and what the call returned
NoFaults == [typ \in RoomFields |-> "none"]

NoCall ==
    [op |-> "none", spaces |-> {}, faults |-> NoFaults, fault |-> "none",
     before |-> StdTable, resp |-> NoResp, panic |-> FALSE, workers |-> 0,
     child |-> <<>>, pairs |-> 0]

RoomCall(t, spaces, faults, r) ==
    [op |-> "Room", spaces |-> spaces, faults |-> faults,
     fault |-> "none", before |-> t, resp |-> r.resp, panic |-> FALSE,
     workers |-> r.workers, child |-> <<>>, pairs |-> 0, sched |-> r.sched,
     units |-> r.units]

SubspaceCall(t, spaces, fault, r) ==
    [op |-> "Subspace", spaces |-> spaces, faults |-> NoFaults,
     fault |-> fault, before |-> t, resp |-> r.resp, panic |-> r.panic,
     workers |-> 0, child |-> r.child, pairs |-> r.pairs]

\* the faults of the six types as the function Room takes
FaultsOf(f1, f2, f3, f4, f5, f6) ==
    [typ \in RoomFields |->
        CASE typ = "cgroup" -> f1 [] typ = "ipc" -> f2
          [] typ = "mnt" -> f3 [] typ = "net" -> f4
          [] typ = "time" -> f5 [] OTHER -> f6]

\* Room returned r
RoomReturned(spaces, faults, r) ==
    /\ call' = RoomCall(fdt, spaces, faults, r)
    /\ fdt' = r.t
    /\ UNCHANGED crashed

\* Subspace returned r, or a panic escaped it
SubspaceReturned(spaces, fault, r) ==
    /\ call' = SubspaceCall(fdt, spaces, fault, r)
    /\ fdt' = r.t
    /\ crashed' = r.panic

\* the faults newNamespace can be made to suffer for typ under a request
\* (enumerated for the requests that consist of flat types only)
FaultChoices(typ, spaces) ==
    IF typ \in spaces /\ spaces \subseteq RoomFields THEN NsFaults(typ) ELSE {"none"}

\* the descriptors one call needs at most
NeedFds == 8

\* the state of the service loop, the channel and the client
svars ==
    <<ctxDone, s_pc, s_exit, s_req, s_resp, s_msg, s_fds, c2s, s2c, c_pc, c_op,
      c_result, c_fds, c_sub, nreq, cleanups, recvd, sent, dropped, kids>>

NoReq == [tag |-> "none", spaces |-> {}, id |-> 0]

\* the service loop, the channel and the client before anything happened
SessionIdle ==
    /\ ctxDone = FALSE
    /\ s_pc = "select"
    /\ s_exit = ""
    /\ s_req = NoReq
    /\ s_resp = NoResp
    /\ s_msg = NoPayload
    /\ s_fds = <<>>
    /\ c2s = <<>>
    /\ s2c = <<>>
    /\ c_pc = "idle"
    /\ c_op = "none"
    /\ c_result = NoResp
    /\ c_fds = <<>>
    /\ c_sub = Nil
    /\ nreq = 0
    /\ cleanups = <<>>
    /\ recvd = <<>>
    /\ sent = <<>>
    /\ dropped = 0
    /\ kids = <<>>

\* --------------------------------------------- calling the Spacemaker directly

\* a caller (such as the service's unit tests) calls Room
CallRoom ==
    /\ ~crashed
    /\ call.op = "none"
    /\ FreeCount(fdt) >= NeedFds
    /\ \E spaces \in SUBSET AllBits :
       \E f1 \in FaultChoices("cgroup", spaces), f2 \in FaultChoices("ipc", spaces),
          f3 \in FaultChoices("mnt", spaces), f4 \in FaultChoices("net", spaces),
          f5 \in FaultChoices("time", spaces), f6 \in FaultChoices("uts", spaces) :
          RoomReturned(spaces, FaultsOf(f1, f2, f3, f4, f5, f6),
                       Room(fdt, spaces, FaultsOf(f1, f2, f3, f4, f5, f6)))
    /\ UNCHANGED svars

\* a caller calls Subspace
CallSubspace ==
    /\ ~crashed
    /\ call.op = "none"
    /\ FreeCount(fdt) >= NeedFds
    /\ \E spaces \in SUBSET AllBits :
       \E fault \in SubFaults(spaces) :
          SubspaceReturned(spaces, fault, Subspace(fdt, spaces, fault, 1))
    /\ UNCHANGED svars

RECURSIVE closeFields(_, _, _)
closeFields(fields, t, h) ==
    IF fields = {}
    THEN t
    ELSE LET f == CHOOSE x \in fields : TRUE
         IN  closeFields(fields \ {f}, IF h[f] > 0 THEN Close(t, h[f]) ELSE t, h)

\* the caller closes the handles it was returned
CallerCloses ==
    /\ ~crashed
    /\ call.op # "none"
    /\ fdt' = closeFields(Fields, fdt, call.resp.h)
    /\ call' = NoCall
    /\ UNCHANGED <<crashed, svars>>

vars == <<fdt, crashed, call, svars>>

InitSpacemaker ==
    /\ fdt = StdTable
    /\ crashed = FALSE
    /\ call = NoCall
    /\ SessionIdle

NextSpacemaker == CallRoom \/ CallSubspace \/ CallerCloses

SpecSpacemaker == InitSpacemaker /\ [][NextSpacemaker]_vars

\* ------------------------------------------------------- calling Execute

\* the handles a call is passed at most
MaxHandles == 2

\* the descriptor table of a test that holds handles of two network
\* namespaces, of a UTS, a user and a mount namespace, and of the UTS
\* namespace of the process
ExecTable ==
    [n \in FdNums |->
        CASE n = 3 -> NsObj("net", "a")
          [] n = 4 -> NsObj("net", "b")
          [] n = 5 -> NsObj("uts", "a")
          [] n = 6 -> NsObj("user", "a")
          [] n = 7 -> NsObj("mnt", "a")
          [] n = 8 -> NsObj("uts", "host")
          [] OTHER -> StdTable[n]]

\* what a test passes as a handle: one of its handles, or -1
ExecRefs == {3, 4, 5, 6, 7, Nil}

\* the lists of handles a test passes
ExecLists == UNION {[1..n -> ExecRefs] : n \in 1..MaxHandles}

\* the thread of the test's go routine: locked locks times by the test
\* itself, in the namespaces of the process or in a UTS namespace the test
\* entered with EnterTransient
TestThread(locks, in) ==
    IF in THEN Entered(NewThread(locks), "uts") ELSE NewThread(locks)

\* a call of Execute or goInAndOut by a test on the thread th, and what
\* became of it
ExecCall(op, fds, f, th, res) ==
    [op |-> op, fds |-> fds, f |-> f, locks |-> th.locks, th |-> th, res |-> res]

\* the faults enumerated for the handles fds
MntFaults(fds) ==
    IF \E i \in 1..Len(fds) : fds[i] = 7 THEN {"none", "unshare", "setns"} ELSE {"none"}

ExecReturned(op, fds, f, th, res) ==
    /\ call' = ExecCall(op, fds, f, th, res)
    /\ fdt' = res.t

\* a test calls Execute
CallExecute ==
    /\ call.op = "none"
    /\ \E fds \in ExecLists, locks \in 0..1, in \in BOOLEAN, fn \in BOOLEAN :
       \E switch \in 0..Len(fds), rest \in SUBSET (1..Len(fds)), mnt \in MntFaults(fds) :
          ExecReturned("Execute", fds, ExecFaults(switch, rest, fn, mnt),
              TestThread(locks, in),
              Execute(Running(fdt, TestThread(locks, in)), fds,
                      ExecFaults(switch, rest, fn, mnt)))
    /\ UNCHANGED <<crashed, svars>>

\* a test calls goInAndOut
CallGoInAndOut ==
    /\ call.op = "none"
    /\ \E fds \in ExecLists, locks \in 0..1, in \in BOOLEAN, fn \in BOOLEAN :
       \E switch \in 0..Len(fds), rest \in SUBSET (1..Len(fds)) :
          ExecReturned("goInAndOut", fds, ExecFaults(switch, rest, fn, "none"),
              TestThread(locks, in),
              goInAndOut(Running(fdt, TestThread(locks, in)), fds,
                         ExecFaults(switch, rest, fn, "none")))
    /\ UNCHANGED <<crashed, svars>>

\* the test ends: the closings Current scheduled run, the latest first
TestEnds ==
    /\ call.op \in {"Execute", "goInAndOut"}
    /\ fdt' = closeAll(1, [j \in 1..Len(call.res.cleanups) |->
                               call.res.cleanups[Backward(Len(call.res.cleanups))[j]]],
                       fdt)
    /\ call' = NoCall
    /\ UNCHANGED <<crashed, svars>>

InitExecute ==
    /\ fdt = ExecTable
    /\ crashed = FALSE
    /\ call = NoCall
    /\ SessionIdle

NextExecute == CallExecute \/ CallGoInAndOut \/ TestEnds

SpecExecute == InitExecute /\ [][NextExecute]_vars

\* ---------------------------------------- goSeparate, one step at a time

\* the OS-level threads the go routines of the process can run on; the
\* test's go routine runs on the first
Threads == 1..2
CallerTid == CHOOSE tid \in Threads : \A other \in Threads : tid <= other

wired_never(th) == FALSE

\* runtime.LockOSThread: a go routine that locked its thread has it to
\* itself, the scheduler runs no other go routine on it, and the thread is
\* terminated, not reused, when the go routine exits
wired(th) == th.locks > 0

\* the threads a new go routine can find itself on
FreeThreads(x) == {tid \in Threads : ~(tid = CallerTid /\ wired(x.th))}

\* the faults enumerated for the separate go routine's loop over the handles
\* passed and picked up
MaxSwitch == 7

\* goSeparate in progress: the caller made panicCh and started the go
\* routine, and waits to receive from panicCh
Separating(fds, f, th, acc, x) ==
    [op |-> "goSeparate", fds |-> fds, f |-> f, locks |-> th.locks, th |-> th,
     mntnsfd |-> acc.mntnsfd, othernsfds |-> acc.othernsfds, res |-> x,
     pc |-> "waiting", w |-> "started", tid |-> 0, retired |-> {},
     ch |-> "open", got |-> <<>>, raised |-> NoPanic]

SeparateStarted(fds, f, th, acc) ==
    /\ acc.x.panic = NoPanic
    /\ acc.mntnsfd >= 0
    /\ call' = Separating(fds, f, th, acc,
                   pickedUp(1, TypesOf(acc.x.t, acc.othernsfds), locked(acc.x)))
    /\ fdt' = call'.res.t

\* a test calls Execute with a mount namespace handle among the handles:
\* goSeparate up to its receiving from panicCh
SeparateCalled ==
    /\ call.op = "none"
    /\ \E fds \in ExecLists, locks \in 0..1, in \in BOOLEAN, fn \in BOOLEAN :
       \E switch \in 0..MaxSwitch, mnt \in MntFaults(fds) :
          SeparateStarted(fds, ExecFaults(switch, {}, fn, mnt), TestThread(locks, in),
              sortedOut(1, fds, [x |-> Running(fdt, TestThread(locks, in)),
                                 mntnsfd |-> Nil, othernsfds |-> <<>>]))
    /\ UNCHANGED <<crashed, svars>>

\* where the go routine goes on after a step of its function: a failed
\* Expect panics, and the deferred function runs
WorkerGoes(x, on) == IF x.panic # NoPanic THEN "deferred" ELSE on

\* the go routine locks the thread it runs on, unshares its filesystem
\* attributes and switches into the mount namespace
WorkerEnters ==
    /\ call.op = "goSeparate"
    /\ call.w = "started"
    /\ \E tid \in FreeThreads(call.res) :
          call' = [call EXCEPT !.tid = tid,
                               !.res = entered(call.mntnsfd, call.f, @),
                               !.w = WorkerGoes(entered(call.mntnsfd, call.f, call.res),
                                                "attaching")]
    /\ UNCHANGED <<fdt, crashed, svars>>

\* the go routine attaches its thread to the namespaces passed and picked up
WorkerAttaches ==
    /\ call.op = "goSeparate"
    /\ call.w = "attaching"
    /\ call' = [call EXCEPT
                   !.res = follow(1, call.othernsfds \o @.pick, call.f, @),
                   !.w = WorkerGoes(follow(1, call.othernsfds \o call.res.pick,
                                           call.f, call.res), "calling")]
    /\ UNCHANGED <<fdt, crashed, svars>>

\* the go routine calls fn
WorkerCalls ==
    /\ call.op = "goSeparate"
    /\ call.w = "calling"
    /\ call' = [call EXCEPT !.res = calledThere(call.f, @), !.w = "deferred"]
    /\ UNCHANGED <<fdt, crashed, svars>>

handedOver_never(x) == FALSE

\* if r := recover(); r != nil { panicCh <- r }
handedOver(x) == x.panic # NoPanic

\* the deferred function of the go routine closes the descriptors picked up
WorkerCloses ==
    /\ call.op = "goSeparate"
    /\ call.w = "deferred"
    /\ call' = [call EXCEPT !.res.t = closeAll(1, call.res.pick, @),
                            !.w = IF handedOver(call.res) THEN "sending" ELSE "closing"]
    /\ fdt' = call'.res.t
    /\ UNCHANGED <<crashed, svars>>

\* panicCh has no buffer: the go routine's send and the caller's receive
\* happen together, and the caller goes on to panic(r)
PanicHandedOver ==
    /\ call.op = "goSeparate"
    /\ call.w = "sending"
    /\ call.pc = "waiting"
    /\ call' = [call EXCEPT !.got = Append(@, call.res.panic),
                            !.w = "closing",
                            !.pc = "raising"]
    /\ UNCHANGED <<fdt, crashed, svars>>

\* close(panicCh), and the go routine returns: its thread is terminated when
\* the go routine had it locked
WorkerExits ==
    /\ call.op = "goSeparate"
    /\ call.w = "closing"
    /\ call' = [call EXCEPT !.ch = "closed",
                            !.w = "exited",
                            !.retired = IF wired(call.res.wth) THEN {call.tid} ELSE {}]
    /\ UNCHANGED <<fdt, crashed, svars>>

\* the caller receives nil from the closed channel and returns, its deferred
\* function unlocking the thread
CallerReturns ==
    /\ call.op = "goSeparate"
    /\ call.pc = "waiting"
    /\ call.ch = "closed"
    /\ call' = [call EXCEPT !.got = Append(@, NoPanic),
                            !.res.th.locks = @ - 1,
                            !.pc = "returned"]
    /\ UNCHANGED <<fdt, crashed, svars>>

\* panic(r) on the caller's go routine, its deferred function unlocking the
\* thread
CallerPanics ==
    /\ call.op = "goSeparate"
    /\ call.pc = "raising"
    /\ call' = [call EXCEPT !.raised = call.got[Len(call.got)],
                            !.res.th.locks = @ - 1,
                            !.pc = "panicked"]
    /\ UNCHANGED <<fdt, crashed, svars>>

\* the test ends: the closings Current scheduled run, the latest first
SeparateTestEnds ==
    /\ call.op = "goSeparate"
    /\ call.pc \in {"returned", "panicked"}
    /\ call.w = "exited"
    /\ fdt' = closeAll(1, [j \in 1..Len(call.res.cleanups) |->
                               call.res.cleanups[Backward(Len(call.res.cleanups))[j]]],
                       fdt)
    /\ call' = NoCall
    /\ UNCHANGED <<crashed, svars>>

WorkerStep ==
    WorkerEnters \/ WorkerAttaches \/ WorkerCalls \/ WorkerCloses \/ WorkerExits

CallerStep == PanicHandedOver \/ CallerReturns \/ CallerPanics

NextSeparate == SeparateCalled \/ WorkerStep \/ CallerStep \/ SeparateTestEnds

\* the scheduler runs every go routine that can run
SpecSeparate ==
    InitExecute /\ [][NextSeparate]_vars /\ WF_vars(WorkerStep) /\ WF_vars(CallerStep)

\* ---------------------------------------------------------------- session

\* New: a pair of connected sockets; the client keeps dupond, and Serve runs
\* on dupont in a go routine of the same process
NewConns == NewPair(StdTable, "none", 0)
ClientConn == NewConns.dupond
ServiceConn == NewConns.dupont

\* an end of the session's connection is open while a descriptor refers to it
EndOpen(t, end) == \E n \in FdNums : t[n] = SockObj(end, 0)

\* when Serve returns, the go routine New started closes dupont
ServeReturns(t) == Close(t, ServiceConn)

\* ---------------------------------------------------------- child services

\* a child service as started by the service parent (0 for the service New
\* started in the test's process): main wraps descriptor 3 into a Conn and
\* runs Serve on it with a context that is never cancelled. conn is the
\* descriptor of the client connected to it (Nil while there is none), and
\* closed tells that this client was closed
Kid(child, parent) ==
    [cloneflags |-> child.cloneflags, pair |-> child.pair, parent |-> parent,
     pc |-> "serving", exit |-> "", conn |-> Nil, closed |-> FALSE,
     waits |-> child.waits]

\* the child services a call of Subspace by the service parent started
Started(children, parent) ==
    [i \in 1..Len(children) |-> Kid(children[i], parent)]

\* the client end of a child's socket pair is open while a descriptor of the
\* test's process refers to it, or a message that still can be received
\* carries it
PeerOpen(pair) ==
    /\ ~crashed
    /\ \/ \E n \in FdNums : fdt[n] = SockObj("dupond", pair)
       \/ /\ EndOpen(fdt, "dupond")
          /\ \E i \in 1..Len(s2c) : \E j \in 1..Len(s2c[i].oob) :
                s2c[i].oob[j] = SockObj("dupond", pair)

\* the service j was started by k, or by a service that descends from k
RECURSIVE Descends(_, _, _)
Descends(ks, j, k) ==
    IF ks[j].parent = 0
    THEN FALSE
    ELSE ks[j].parent = k \/ Descends(ks, ks[j].parent, k)

\* main of the child k returns after Serve did, logging how: the process
\* exits. A child that was started with CLONE_NEWPID is process 1 of its PID
\* namespace, and when it exits the kernel kills every process left in that
\* namespace, which are the services that descend from it
Exits(ks, k, how) ==
    [j \in 1..Len(ks) |->
        IF j = k
        THEN [ks[j] EXCEPT !.pc = "done", !.exit = how]
        ELSE IF "pid" \in ks[k].cloneflags /\ ks[j].pc = "serving" /\ Descends(ks, j, k)
        THEN [ks[j] EXCEPT !.pc = "killed"]
        ELSE ks[j]]

\* -------------------------------------------------------------- Serve

\* ------------------------------------------------------------------ Serve

\* what Serve logs at level Error before it returns
ErrorExits ==
    {"cannot set deadline", "cannot receive", "cannot decode incoming request",
     "unhandled request", "cannot encode response", "cannot send"}

\* Serve returns, having logged how
ServeExit(how, t) ==
    /\ s_pc' = "done"
    /\ s_exit' = how
    /\ fdt' = ServeReturns(t)

ctxPolled_always(pc) == pc # "done"

ctxPolled_never(pc) == FALSE

\* the places of the loop that look at ctx.Done(): its top only
ctxPolled(pc) == pc = "select"

\* the top of the loop, the context being done: return
ServeCancelled ==
    /\ ~crashed
    /\ ctxPolled(s_pc)
    /\ ctxDone
    /\ ServeExit("context cancelled", fdt)
    /\ UNCHANGED <<crashed, call, ctxDone, s_req, s_resp, s_msg, s_fds, c2s, s2c,
                   c_pc, c_op, c_result, c_fds, c_sub, nreq, cleanups, recvd,
                   sent, dropped, kids>>

\* the top of the loop, the context not being done: go on to receive
ServeSelect ==
    /\ ~crashed
    /\ s_pc = "select"
    /\ ~ctxDone
    /\ s_pc' = "receive"
    /\ UNCHANGED <<fdt, crashed, call, ctxDone, s_exit, s_req, s_resp, s_msg, s_fds,
                   c2s, s2c, c_pc, c_op, c_result, c_fds, c_sub, nreq, cleanups,
                   recvd, sent, dropped, kids>>

receiveOutcome_eofIsDeadline(queue, peerOpen) ==
    IF queue # <<>> THEN "request" ELSE "deadline"

\* what the deadline-bounded receive returns: the next request, io.EOF when
\* the peer has closed its end and nothing is left to read, or
\* os.ErrDeadlineExceeded
receiveOutcome(queue, peerOpen) ==
    IF queue # <<>> THEN "request"
    ELSE IF ~peerOpen THEN "eof"
    ELSE "deadline"

\* the deadline-bounded receive: a request, the peer's disconnect, or the
\* deadline
ServeReceive ==
    /\ ~crashed
    /\ s_pc = "receive"
    /\ CASE receiveOutcome(c2s, EndOpen(fdt, "dupond")) = "request" ->
              /\ s_req' = Head(c2s)
              /\ c2s' = Tail(c2s)
              /\ recvd' = Append(recvd, Head(c2s).id)
              /\ s_pc' = "dispatch"
              /\ UNCHANGED <<fdt, s_exit>>
         [] receiveOutcome(c2s, EndOpen(fdt, "dupond")) = "eof" ->
              /\ ServeExit("client disconnected", fdt)
              /\ UNCHANGED <<s_req, c2s, recvd>>
         [] OTHER ->
              /\ s_pc' = "select"
              /\ UNCHANGED <<fdt, s_exit, s_req, c2s, recvd>>
    /\ UNCHANGED <<crashed, call, ctxDone, s_resp, s_msg, s_fds, s2c, c_pc, c_op,
                   c_result, c_fds, c_sub, nreq, cleanups, sent, dropped, kids>>

\* the faults newNamespace is made to suffer while serving a session: the
\* refusal to unshare (as for a powerless caller), or none
ServedFaultChoices(typ, spaces) ==
    IF typ \in spaces /\ spaces \subseteq RoomFields THEN {"none", "unshare"} ELSE {"none"}

requestError_none(tag) == ""

\* what Serve logs for a message it does not dispatch: one gob cannot decode
\* into an api.Request, or a request that is neither a SubspaceRequest nor a
\* RoomsRequest; "" for a request it handles
requestError(tag) ==
    CASE tag = "undecodable" -> "cannot decode incoming request"
      [] tag \in {"SubspaceRequest", "RoomsRequest"} -> ""
      [] OTHER -> "unhandled request"

\* decode the request and dispatch it to the Spacer
ServeDispatch ==
    /\ ~crashed
    /\ s_pc = "dispatch"
    /\ FreeCount(fdt) >= NeedFds
    /\ CASE requestError(s_req.tag) # "" ->
              /\ ServeExit(requestError(s_req.tag), fdt)
              /\ UNCHANGED <<s_resp, call, crashed, kids>>
         [] s_req.tag = "RoomsRequest" ->
              \E f1 \in ServedFaultChoices("cgroup", s_req.spaces),
                 f2 \in ServedFaultChoices("ipc", s_req.spaces),
                 f3 \in ServedFaultChoices("mnt", s_req.spaces),
                 f4 \in ServedFaultChoices("net", s_req.spaces),
                 f5 \in ServedFaultChoices("time", s_req.spaces),
                 f6 \in ServedFaultChoices("uts", s_req.spaces) :
                 /\ RoomReturned(s_req.spaces, FaultsOf(f1, f2, f3, f4, f5, f6),
                        Room(fdt, s_req.spaces, FaultsOf(f1, f2, f3, f4, f5, f6)))
                 /\ s_resp' = call'.resp
                 /\ s_pc' = "encode"
                 /\ UNCHANGED <<s_exit, kids>>
         [] OTHER ->
              \E fault \in SubFaults(s_req.spaces) :
                 /\ SubspaceReturned(s_req.spaces, fault,
                        Subspace(fdt, s_req.spaces, fault, Len(kids) + 1))
                 /\ s_resp' = call'.resp
                 /\ kids' = kids \o Started(call'.child, 0)
                 /\ s_pc' = "encode"
                 /\ UNCHANGED s_exit
    /\ UNCHANGED <<ctxDone, s_req, s_msg, s_fds, c2s, s2c, c_pc, c_op, c_result,
                   c_fds, c_sub, nreq, cleanups, recvd, sent, dropped>>

\* encode the response
ServeEncode ==
    /\ ~crashed
    /\ s_pc = "encode"
    /\ \E ok \in BOOLEAN :
          IF ok
          THEN s_msg' = Encode(s_resp) /\ s_pc' = "send" /\ UNCHANGED <<fdt, s_exit>>
          ELSE ServeExit("cannot encode response", fdt) /\ UNCHANGED s_msg
    /\ UNCHANGED <<crashed, call, ctxDone, s_req, s_resp, s_fds, c2s, s2c, c_pc,
                   c_op, c_result, c_fds, c_sub, nreq, cleanups, recvd, sent,
                   dropped, kids>>

\* collect the descriptors to transfer and send the message with them; the
\* send fails when the peer has closed its end
ServeSend ==
    /\ ~crashed
    /\ s_pc = "send"
    /\ LET e == EncodeFds(s_resp)
       IN  /\ s_resp' = [s_resp EXCEPT !.h = e.h]
           /\ s_fds' = e.fds
           /\ IF EndOpen(fdt, "dupond")
              THEN /\ s2c' = Append(s2c, [payload |-> s_msg,
                                          oob |-> InFlight(fdt, e.fds),
                                          id |-> s_req.id])
                   /\ sent' = Append(sent, s_req.id)
                   /\ s_pc' = "sent"
              ELSE /\ s_pc' = "senderr"
                   /\ UNCHANGED <<s2c, sent>>
    /\ UNCHANGED <<fdt, crashed, call, ctxDone, s_exit, s_req, s_msg, c2s, c_pc,
                   c_op, c_result, c_fds, c_sub, nreq, cleanups, recvd, dropped, kids>>

AfterSend_continues(failed) == "select"

\* after the send and the closing of the descriptors: a failed send ends the
\* loop, otherwise the loop starts over
AfterSend(failed) == IF failed THEN "done" ELSE "select"

\* close the descriptors that were sent, whether the send succeeded or not
ServeCloseFds ==
    /\ ~crashed
    /\ s_pc \in {"sent", "senderr"}
    /\ IF AfterSend(s_pc = "senderr") = "done"
       THEN ServeExit("cannot send", closeAll(1, s_fds, fdt))
       ELSE /\ s_pc' = AfterSend(s_pc = "senderr")
            /\ fdt' = closeAll(1, s_fds, fdt)
            /\ UNCHANGED s_exit
    /\ s_fds' = <<>>
    /\ UNCHANGED <<crashed, call, ctxDone, s_req, s_resp, s_msg, c2s, s2c, c_pc,
                   c_op, c_result, c_fds, c_sub, nreq, cleanups, recvd, sent,
                   dropped, kids>>

\* the context is cancelled
Cancel ==
    /\ ~crashed
    /\ ~ctxDone
    /\ c_pc # "ended"
    /\ ctxDone' = TRUE
    /\ UNCHANGED <<fdt, crashed, call, s_pc, s_exit, s_req, s_resp, s_msg, s_fds, c2s,
                   s2c, c_pc, c_op, c_result, c_fds, c_sub, nreq, cleanups,
                   recvd, sent, dropped, kids>>

\* ----------------------------------------------------------------- Client

\* the selections the modelled test node asks Rooms for
ClientRoomMasks == {{}, {"net"}, {"net", "uts"}, RoomFields}

\* namespaces.ifrequested
ifrequested(n, b, flag) == IF b THEN n \cup {flag} ELSE n

\* the first half of Client.do: encode and send the request; the test fails
\* when the request cannot be sent
ClientSends(op, tag, spaces) ==
    /\ ~crashed
    /\ c_pc = "idle"
    /\ nreq < MaxRequests
    /\ nreq' = nreq + 1
    /\ c_op' = op
    /\ IF EndOpen(fdt, "dupont")
       THEN /\ c2s' = Append(c2s, [tag |-> tag, spaces |-> spaces, id |-> nreq + 1])
            /\ c_pc' = "waiting"
       ELSE /\ c_pc' = "failed"
            /\ UNCHANGED c2s
    /\ UNCHANGED <<fdt, crashed, call, ctxDone, s_pc, s_exit, s_req, s_resp, s_msg, s_fds,
                   s2c, c_result, c_fds, c_sub, cleanups, recvd, sent, dropped, kids>>

\* Client.Rooms, up to the sending of the request
ClientRooms ==
    \E mask \in ClientRoomMasks :
        ClientSends("Rooms", "RoomsRequest",
            ifrequested(ifrequested(ifrequested(ifrequested(ifrequested(ifrequested({},
                "cgroup" \in mask, "cgroup"), "ipc" \in mask, "ipc"),
                "mnt" \in mask, "mnt"), "net" \in mask, "net"),
                "time" \in mask, "time"), "uts" \in mask, "uts"))

\* Client.Subspace, up to the sending of the request
ClientSubspace ==
    \E user \in BOOLEAN, pid \in BOOLEAN :
        ClientSends("Subspace", "SubspaceRequest",
            ifrequested(ifrequested({}, user, "user"), pid, "pid"))

\* the holder of the client's end sends a message that is no request Serve
\* handles: bytes gob cannot decode into an api.Request, or a request of
\* another type, such as api.UnhandlebarRequest; no response comes back
ClientSendsOther ==
    \E tag \in {"undecodable", "UnhandlebarRequest"} :
        ClientSends("other", tag, {})

\* the descriptors Client.do is prepared to receive with a response
DoMaxFds == 3

\* the response as an api.FdsDecoder, when it is one
DecodeFds(resp, fds, t) ==
    CASE resp.tag = "RoomsResponse" -> RoomsDecodeFds(resp.h, fds, t)
      [] resp.tag = "SubspaceResponse" -> SubspaceDecodeFds(resp.h, fds, t)
      [] OTHER -> [h |-> resp.h, t |-> t, panic |-> FALSE]

\* the client of the child service of the socket pair is conn
Connected(ks, pair, conn) ==
    [j \in 1..Len(ks) |->
        IF ks[j].pair = pair THEN [ks[j] EXCEPT !.conn = conn] ELSE ks[j]]

\* Subspace once NewUnixConn returned subconn for the connection received:
\* the new client, and the closing of the namespace handles scheduled
ClientSubconn(resp, d, subconn, ks) ==
    /\ fdt' = subconn.t
    /\ IF subconn.err # ""
       THEN /\ c_pc' = "failed"
            /\ kids' = ks
            /\ UNCHANGED <<c_result, c_sub, cleanups>>
       ELSE /\ c_pc' = "idle"
            /\ c_sub' = subconn.conn
            /\ kids' = Connected(ks, subconn.t[subconn.conn].id, subconn.conn)
            /\ c_result' = [resp EXCEPT !.h = [d.h EXCEPT !["conn"] = 0]]
            /\ cleanups' = Append(cleanups, [d.h EXCEPT !["conn"] = 0])
    /\ UNCHANGED crashed

\* Client.do and the rest of Rooms or Subspace once the response was
\* decoded as resp, and DecodeFds returned d for the descriptors received
\* into the table t
ClientDecoded(op, resp, t, d, ks) ==
    IF resp.tag = "ErrorResponse"
    THEN /\ c_pc' = "failed"
         /\ fdt' = t
         /\ kids' = ks
         /\ UNCHANGED <<crashed, c_result, c_sub, cleanups>>
    ELSE IF d.panic
    THEN /\ crashed' = TRUE
         /\ fdt' = d.t
         /\ kids' = ks
         /\ UNCHANGED <<c_pc, c_result, c_sub, cleanups>>
    ELSE IF resp.tag # (IF op = "Rooms" THEN "RoomsResponse" ELSE "SubspaceResponse")
    THEN /\ c_pc' = "failed"
         /\ fdt' = d.t
         /\ kids' = ks
         /\ UNCHANGED <<crashed, c_result, c_sub, cleanups>>
    ELSE IF op = "Rooms"
    THEN /\ c_pc' = "idle"
         /\ fdt' = d.t
         /\ kids' = ks
         /\ c_result' = [resp EXCEPT !.h = d.h]
         /\ cleanups' = Append(cleanups, d.h)
         /\ UNCHANGED <<crashed, c_sub>>
    ELSE ClientSubconn(resp, d, NewUnixConn(d.t, d.h["conn"], "none"), ks)

\* Client.do once ReceiveWithFds returned r for a message with payload
ClientReceived(op, payload, r, ks) ==
    /\ c_fds' = r.fds
    /\ dropped' = dropped + r.dropped
    /\ ClientDecoded(op, Decode(payload), r.t,
                     DecodeFds(Decode(payload), r.fds, r.t), ks)

\* the second half of Client.do and the rest of Rooms or Subspace: receive
\* and decode the response, fail the test on an ErrorResponse or a response
\* of the wrong type, distribute the descriptors, schedule the closing of the
\* namespace handles, and for Subspace wrap the connection into a new client
ClientReceives ==
    /\ ~crashed
    /\ c_pc = "waiting"
    /\ s2c # <<>>
    /\ s2c' = Tail(s2c)
    /\ ClientReceived(c_op, Head(s2c).payload,
                      ReceiveWithFds(fdt, Head(s2c).oob, DoMaxFds), kids)
    /\ UNCHANGED <<call, ctxDone, s_pc, s_exit, s_req, s_resp, s_msg, s_fds, c2s, c_op,
                   nreq, recvd, sent>>

\* Client.do's receive fails while no response has arrived: its read deadline
\* expired, or the service has gone without an answer; the test fails
ClientGivesUp ==
    /\ ~crashed
    /\ c_pc = "waiting"
    /\ s2c = <<>>
    /\ c_pc' = "failed"
    /\ UNCHANGED <<fdt, crashed, call, ctxDone, s_pc, s_exit, s_req, s_resp, s_msg, s_fds,
                   c2s, s2c, c_op, c_result, c_fds, c_sub, nreq, cleanups, recvd,
                   sent, dropped, kids>>

RECURSIVE runCleanups(_, _, _)
runCleanups(i, cs, t) ==
    IF i < 1 THEN t ELSE runCleanups(i - 1, cs, closeFields(Fields, t, cs[i]))

\* the test node ends: the deferred Client.Close, then the scheduled
\* cleanups, latest first
NodeEnds ==
    /\ ~crashed
    /\ c_pc \in {"idle", "failed"}
    /\ c_pc' = "ended"
    /\ fdt' = runCleanups(Len(cleanups), cleanups, Close(fdt, ClientConn))
    /\ cleanups' = <<>>
    /\ UNCHANGED <<crashed, call, ctxDone, s_pc, s_exit, s_req, s_resp, s_msg, s_fds, c2s,
                   s2c, c_op, c_result, c_fds, c_sub, nreq, recvd, sent, dropped, kids>>

\* ------------------------------------------- the clients of child services

\* the deadline-bounded receive of a child's Serve while no request is on
\* its way: it returns when the receive tells that the client disconnected,
\* and goes round the loop otherwise
KidServes ==
    /\ \E k \in 1..Len(kids) :
          /\ kids[k].pc = "serving"
          /\ receiveOutcome(<<>>, PeerOpen(kids[k].pair)) = "eof"
          /\ kids' = Exits(kids, k, "client disconnected")
    /\ UNCHANGED <<fdt, crashed, call, ctxDone, s_pc, s_exit, s_req, s_resp, s_msg,
                   s_fds, c2s, s2c, c_pc, c_op, c_result, c_fds, c_sub, nreq,
                   cleanups, recvd, sent, dropped>>

\* the descriptor table of a child service of the socket pair: main wrapped
\* the inherited descriptor 3 into a Conn
KidTable(pair) ==
    NewUnixConn([StdTable EXCEPT ![3] = SockObj("dupont", pair)], 3, "none").t

\* Client.Subspace on the client connected to the child service k, the child
\* serving the request while the client waits: Subspace returns r in the
\* child, whose Serve encodes it and sends it with its descriptors, and
\* Client.do receives that message
SubExchange(k, r) ==
    ClientReceived("Subspace", Encode(r.resp),
                   ReceiveWithFds(fdt, InFlight(r.t, EncodeFds(r.resp).fds), DoMaxFds),
                   kids \o Started(r.child, k))

\* Client.Subspace on the client of a child service; the test fails when
\* that service is gone
SubClientSubspace ==
    /\ ~crashed
    /\ c_pc = "idle"
    /\ nreq < MaxRequests
    /\ FreeCount(fdt) >= NeedFds
    /\ nreq' = nreq + 1
    /\ c_op' = "Subspace"
    /\ \E k \in 1..Len(kids) : \E user \in BOOLEAN, pid \in BOOLEAN :
          /\ kids[k].conn # Nil
          /\ ~kids[k].closed
          /\ IF kids[k].pc = "serving"
             THEN SubExchange(k,
                      Subspace(KidTable(kids[k].pair),
                               ifrequested(ifrequested({}, user, "user"), pid, "pid"),
                               "none", Len(kids) + 1))
             ELSE /\ c_pc' = "failed"
                  /\ UNCHANGED <<fdt, crashed, c_result, c_fds, c_sub, cleanups,
                                 dropped, kids>>
    /\ UNCHANGED <<call, ctxDone, s_pc, s_exit, s_req, s_resp, s_msg, s_fds, c2s,
                   s2c, recvd, sent>>

\* Client.Close on the client of a child service
SubClientClose ==
    /\ ~crashed
    /\ c_pc \in {"idle", "failed"}
    /\ \E k \in 1..Len(kids) :
          /\ kids[k].conn # Nil
          /\ ~kids[k].closed
          /\ fdt' = Close(fdt, kids[k].conn)
          /\ kids' = [kids EXCEPT ![k].closed = TRUE]
    /\ UNCHANGED <<crashed, call, ctxDone, s_pc, s_exit, s_req, s_resp, s_msg, s_fds,
                   c2s, s2c, c_pc, c_op, c_result, c_fds, c_sub, nreq, cleanups,
                   recvd, sent, dropped>>

Init ==
    /\ fdt = NewConns.t
    /\ crashed = FALSE
    /\ call = NoCall
    /\ SessionIdle

Next ==
    \/ ServeCancelled
    \/ ServeSelect
    \/ ServeReceive
    \/ ServeDispatch
    \/ ServeEncode
    \/ ServeSend
    \/ ServeCloseFds
    \/ Cancel
    \/ ClientRooms
    \/ ClientSubspace
    \/ ClientSendsOther
    \/ ClientReceives
    \/ ClientGivesUp
    \/ NodeEnds
    \/ SubClientSubspace
    \/ SubClientClose
    \/ KidServes

Spec == Init /\ [][Next]_vars

\* the steps of the go routine that runs Serve while it waits for a request:
\* the look at the context and the deadline-bounded receive
ServeWaitStep ==
    \/ ServeCancelled
    \/ ServeSelect
    \/ ServeReceive

\* the session with the go routine of Serve being scheduled while it waits:
\* it takes its next step whenever it has one, as neither the look at the
\* context nor the receive (bounded by its deadline) blocks for ever
SpecServing == Spec /\ WF_vars(ServeWaitStep)

\* the session with every child service being scheduled, and with Serve
\* getting to close the descriptors it sent
SpecSubspaces == Spec /\ WF_vars(KidServes) /\ WF_vars(ServeCloseFds)

\* ------------------------------------------- the api and uds unit tests

\* an open directory, as a test opens "." to have a descriptor that is no
\* namespace
DirObj == [kind |-> "file", typ |-> "", id |-> 0]

\* a UDP socket, as an example of a socket that is no unix domain socket
UdpObj == [kind |-> "sock", typ |-> "udp", id |-> 0]

\* the descriptor table of a test that opened a directory and, with Current,
\* a handle of each type of namespace, that holds the end of a socket pair
\* and a UDP socket, and that has a handle of another net and of another
\* user namespace
UnitTable ==
    [n \in FdNums |->
        CASE n = 3 -> DirObj
          [] n = 4 -> NsObj("cgroup", "host")
          [] n = 5 -> NsObj("ipc", "host")
          [] n = 6 -> NsObj("mnt", "host")
          [] n = 7 -> NsObj("net", "host")
          [] n = 8 -> NsObj("time", "host")
          [] n = 9 -> NsObj("uts", "host")
          [] n = 10 -> NsObj("user", "host")
          [] n = 11 -> NsObj("pid", "host")
          [] n = 12 -> SockObj("dupond", 1)
          [] n = 13 -> UdpObj
          [] n = 14 -> NsObj("net", "other")
          [] n = 15 -> NsObj("user", "other")
          [] OTHER -> StdTable[n]]

\* the descriptor of UnitTable that is a handle of the type, or the socket
\* for the field Conn
UnitHandle(f) ==
    IF f = "conn"
    THEN CHOOSE n \in FdNums : UnitTable[n] = SockObj("dupond", 1)
    ELSE CHOOSE n \in FdNums : UnitTable[n] = NsObj(f, "host")

\* the fields of a response of the shape
ShapeFields(tag) == IF tag = "RoomsResponse" THEN RoomFields ELSE SubFields

\* a handle field of a response a test builds: the handle for it, or 0, or -1
UnitField(f, how) ==
    CASE how = "handle" -> UnitHandle(f)
      [] how = "zero" -> 0
      [] OTHER -> Nil

\* the responses a test builds: each handle field of the shape holds the
\* handle for it, or 0, or -1, and the fields of the other shape are 0
UnitHandles(tag) ==
    {[f \in Fields |-> IF f \in ShapeFields(tag) THEN UnitField(f, how[f]) ELSE 0] :
        how \in [ShapeFields(tag) -> {"handle", "zero", "minus"}]}

Shaped(tag, h) == [tag |-> tag, h |-> h, reason |-> <<>>]

\* the handle sets a test passes to DecodeFds at most
MaxSet == 2

\* what a test passes as a received descriptor
UnitRefs == 3..12 \cup 14..15

UnitSets == UNION {[1..n -> UnitRefs] : n \in 0..MaxSet}

\* a call of EncodeFds on the response of the shape with the fields h, or of
\* DecodeFds with the descriptors fds on the response with the fields dh, and
\* what came of it
UnitCall(op, tag, h, enc, fds, dh, dec) ==
    [op |-> op, tag |-> tag, h |-> h, enc |-> enc, fds |-> fds, dh |-> dh,
     dec |-> dec]

NoDec == [h |-> ZeroH, t |-> StdTable, panic |-> FALSE]

\* a test calls EncodeFds on a response it built
CallEncodeFds ==
    /\ call.op = "none"
    /\ \E tag \in {"RoomsResponse", "SubspaceResponse"} :
       \E h \in UnitHandles(tag) :
          call' = UnitCall("EncodeFds", tag, h, EncodeFds(Shaped(tag, h)),
                           <<>>, ZeroH, NoDec)
    /\ UNCHANGED <<fdt, crashed, svars>>

UnitDecoded(tag, h, enc, fds, dh, dec) ==
    /\ call' = UnitCall("DecodeFds", tag, h, enc, fds, dh, dec)
    /\ fdt' = dec.t

\* the test calls DecodeFds on the response EncodeFds left, with the
\* descriptors EncodeFds returned
CallDecodeFdsBack ==
    /\ call.op = "EncodeFds"
    /\ UnitDecoded(call.tag, call.h, call.enc, call.enc.fds, call.enc.h,
                   DecodeFds(Shaped(call.tag, call.enc.h), call.enc.fds, fdt))
    /\ UNCHANGED <<crashed, svars>>

\* a test calls DecodeFds on a zero response with descriptors of its choice
CallDecodeFds ==
    /\ call.op = "none"
    /\ \E tag \in {"RoomsResponse", "SubspaceResponse"}, fds \in UnitSets :
          UnitDecoded(tag, ZeroH, [h |-> ZeroH, fds |-> <<>>], fds, ZeroH,
                      DecodeFds(Shaped(tag, ZeroH), fds, fdt))
    /\ UNCHANGED <<crashed, svars>>

\* the next test starts
UnitTestEnds ==
    /\ call.op \in {"DecodeFds", "NewUnixConn", "NewPair", "EnterTransient"}
    /\ call' = NoCall
    /\ fdt' = UnitTable
    /\ UNCHANGED <<crashed, svars>>

InitUnits ==
    /\ fdt = UnitTable
    /\ crashed = FALSE
    /\ call = NoCall
    /\ SessionIdle

\* what a test passes to NewUnixConn: one of its descriptors, the number of
\* a descriptor that is not open, or -1
ConnRefs == {Nil} \cup 3..16

\* the steps of NewUnixConn that can fail for the descriptor: only a unix
\* domain socket gets through all of them, a socket of another kind gets
\* through net.FilePacketConn, anything else does not
ConnFaultsOf(t, udsfd) ==
    IF udsfd < 0
    THEN {"none"}
    ELSE IF t[udsfd].kind # "sock"
    THEN {"packetconn"}
    ELSE IF t[udsfd] = UdpObj
    THEN {"packetconn", "notunix"}
    ELSE {"none", "packetconn"}

\* a call of NewUnixConn or NewPair, and what it returned
UdsCall(op, udsfd, fault, r) == [op |-> op, udsfd |-> udsfd, fault |-> fault, r |-> r]

UdsReturned(op, udsfd, fault, r) ==
    /\ call' = UdsCall(op, udsfd, fault, r)
    /\ fdt' = r.t

\* a test calls NewUnixConn
CallNewUnixConn ==
    /\ call.op = "none"
    /\ \E udsfd \in ConnRefs :
       \E fault \in ConnFaultsOf(fdt, udsfd) :
          UdsReturned("NewUnixConn", udsfd, fault, NewUnixConn(fdt, udsfd, fault))
    /\ UNCHANGED <<crashed, svars>>

\* a test calls NewPair
CallNewPair ==
    /\ call.op = "none"
    /\ \E fault \in PairFaults :
          UdsReturned("NewPair", Nil, fault, NewPair(fdt, fault, 2))
    /\ UNCHANGED <<crashed, svars>>

\* the types EnterTransient lets through
supportsEnter(typ) == typ \in {"cgroup", "ipc", "net", "pid", "uts"}

\* the steps of EnterTransient that can fail
EnterFaults == {"none", "open", "unshare"}

\* EnterTransient once it opened the caller's namespace: unshare(typ) gives
\* the thread a namespace of its own, which for a PID namespace is the one
\* its children will be in, the thread itself staying where it is
EnterUnshared(typ, fault, x) ==
    IF fault = "unshare"
    THEN [x EXCEPT !.sys = Append(@, Ev("caller", "unshare", 0, typ, "", FALSE)),
                   !.panic = Failure("cannot create new namespace", typ)]
    ELSE [x EXCEPT !.sys = Append(@, Ev("caller", "unshare", 0, typ, "t", TRUE)),
                   !.th.att[typ] = IF typ = "pid" THEN @ ELSE "t"]

\* EnterTransient once it locked the thread: open the caller's namespace,
\* with no closing scheduled
EnterOpened(typ, fault, x) ==
    IF fault = "open"
    THEN [x EXCEPT !.panic = Failure("cannot determine current namespace from procfs", typ)]
    ELSE EnterUnshared(typ, fault,
             [x EXCEPT !.t = Open(x.t, NsObj(typ, x.th.att[typ])).t,
                       !.cur = Alloc(x.t)])

\* EnterTransient up to its returning the function that leaves again
EnterTransient(x, typ, fault) ==
    IF ~supportsEnter(typ)
    THEN [x EXCEPT !.panic = Failure("unsupported type", typ)]
    ELSE EnterOpened(typ, fault, locked(x))

EnterReturned(typ, fault, th, res) ==
    /\ call' = [op |-> "EnterTransient", typ |-> typ, fault |-> fault,
                locks |-> th.locks, th |-> th, res |-> res, left |-> <<>>]
    /\ fdt' = res.t

\* a test calls EnterTransient
CallEnterTransient ==
    /\ call.op = "none"
    /\ \E typ \in ExecTypes, fault \in EnterFaults, locks \in 0..1 :
          EnterReturned(typ, fault, NewThread(locks),
                        EnterTransient(Running(fdt, NewThread(locks)), typ, fault))
    /\ UNCHANGED <<crashed, svars>>

LeaveTransient_unlocks(x, ok) ==
    IF ~ok
    THEN [x EXCEPT !.sys = Append(@, Ev("caller", "restore", 0, x.t[x.cur].typ,
                                       x.t[x.cur].id, FALSE)),
                   !.th.locks = @ - 1,
                   !.panic = Failure("leaving from EnterTransient: cannot restore original namespace",
                                     x.t[x.cur].typ)]
    ELSE [x EXCEPT !.sys = @ \o <<Ev("caller", "restore", 0, x.t[x.cur].typ,
                                     x.t[x.cur].id, TRUE),
                                  Ev("caller", "unlock", 0, "", "", TRUE)>>,
                   !.th = [Setns(x.th, x.t[x.cur]) EXCEPT !.locks = @ - 1],
                   !.t = Close(x.t, x.cur)]

\* the function EnterTransient returned: switch back into the caller's
\* namespace, panicking when that fails, then close the descriptor of the
\* caller's namespace and unlock the thread
LeaveTransient(x, ok) ==
    IF ~ok
    THEN [x EXCEPT !.sys = Append(@, Ev("caller", "restore", 0, x.t[x.cur].typ,
                                       x.t[x.cur].id, FALSE)),
                   !.panic = Failure("leaving from EnterTransient: cannot restore original namespace",
                                     x.t[x.cur].typ)]
    ELSE [x EXCEPT !.sys = @ \o <<Ev("caller", "restore", 0, x.t[x.cur].typ,
                                     x.t[x.cur].id, TRUE),
                                  Ev("caller", "unlock", 0, "", "", TRUE)>>,
                   !.th = [Setns(x.th, x.t[x.cur]) EXCEPT !.locks = @ - 1],
                   !.t = Close(x.t, x.cur)]

\* the test calls the function EnterTransient returned
CallLeave ==
    /\ call.op = "EnterTransient"
    /\ call.res.panic = NoPanic
    /\ call.left = <<>>
    /\ \E ok \in BOOLEAN : call' = [call EXCEPT !.left = <<LeaveTransient(call.res, ok)>>]
    /\ fdt' = call'.left[1].t
    /\ UNCHANGED <<crashed, svars>>

NextUnits ==
    \/ CallEncodeFds
    \/ CallDecodeFdsBack
    \/ CallDecodeFds
    \/ CallNewUnixConn
    \/ CallNewPair
    \/ CallEnterTransient
    \/ CallLeave
    \/ UnitTestEnds

SpecUnits == InitUnits /\ [][NextUnits]_vars

\* ================================================================ properties

\* the vocabulary of the properties: the flat and the hierarchical namespace
\* types, a valid RoomsRequest and a valid SubspaceRequest, and the types of
\* the latest Room call whose creation was made to fail
FlatTypes == {"cgroup", "ipc", "mnt", "net", "time", "uts"}
HierTypes == {"user", "pid"}
ValidRooms(spaces) == spaces # {} /\ spaces \subseteq FlatTypes
ValidSubspace(spaces) == spaces # {} /\ spaces \subseteq HierTypes
FailedTypes == {typ \in call.spaces \cap FlatTypes : call.faults[typ] # "none"}
NoHandles(resp) == \A f \in Fields : resp.h[f] = 0

\* C1: a valid RoomsRequest on which every per-type creation succeeds is
\* answered by a RoomsResponse whose handle is positive for exactly the
\* requested types and zero for all others, and each returned handle is an
\* open descriptor of a namespace of the type it was requested under.
C1_RoomReturnsRequestedHandles ==
    (call.op = "Room" /\ ValidRooms(call.spaces) /\ FailedTypes = {}) =>
        /\ call.resp.tag = "RoomsResponse"
        /\ \A f \in FlatTypes :
              IF f \in call.spaces
              THEN /\ call.resp.h[f] > 0
                   /\ NsType(fdt, call.resp.h[f]) = f
              ELSE call.resp.h[f] = 0
        /\ \A f \in Fields \ FlatTypes : call.resp.h[f] = 0

C1_Witness ==
    /\ call.op = "Room"
    /\ call.spaces = FlatTypes
    /\ FailedTypes = {}
    /\ call.resp.tag = "RoomsResponse"
    /\ \A f \in FlatTypes : call.resp.h[f] > 0

\* C2: a RoomsRequest that selects nothing, or that has a bit set outside the
\* six flat types, is answered by an ErrorResponse, no worker was started and
\* the descriptor table is what it was before the call.
C2_RoomRejectsInvalidBeforeCreating ==
    (call.op = "Room" /\ ~ValidRooms(call.spaces)) =>
        /\ call.resp.tag = "ErrorResponse"
        /\ NoHandles(call.resp)
        /\ call.workers = 0
        /\ fdt = call.before

C2_Witness ==
    /\ call.op = "Room"
    /\ call.spaces = {"net", "user"}
    /\ call.resp.tag = "ErrorResponse"

\* C3: a SubspaceRequest that selects neither user nor pid, or that has a bit
\* set outside {user, pid}, is answered by an ErrorResponse, no socket pair
\* was created, no child was spawned and the descriptor table is what it was
\* before the call.
C3_SubspaceRejectsInvalidBeforeCreating ==
    (call.op = "Subspace" /\ ~ValidSubspace(call.spaces)) =>
        /\ call.resp.tag = "ErrorResponse"
        /\ ~call.panic
        /\ NoHandles(call.resp)
        /\ call.pairs = 0
        /\ call.child = <<>>
        /\ fdt = call.before

C3_Witness ==
    /\ call.op = "Subspace"
    /\ call.spaces = {"user", "net"}
    /\ call.resp.tag = "ErrorResponse"

\* C4: in every response message the service loop sends, no handle is
\* represented both in-band and out-of-band: no field of the encoded payload
\* holds a handle that rides out-of-band with the message.
C4_NoHandleInBandAndOutOfBand ==
    (s_pc = "sent") =>
        \A i \in 1..Len(s_fds) : \A p \in s_msg.fields : p[2] # s_fds[i]

\* C5: within one session the responses answer the requests received, one
\* each and in the order of their receipt: the requests answered are a prefix
\* of the requests received, no request is received or answered twice, and
\* whenever the loop is ready to receive again every request received was
\* answered; a request without a response is in work or the loop has
\* terminated.
C5_OneResponsePerRequestInOrder ==
    /\ Len(sent) <= Len(recvd)
    /\ \A i \in 1..Len(sent) : sent[i] = recvd[i]
    /\ \A i, j \in 1..Len(recvd) : recvd[i] = recvd[j] => i = j
    /\ Len(recvd) - Len(sent) <= 1
    /\ Len(recvd) > Len(sent) =>
           \/ crashed
           \/ s_pc \in {"dispatch", "encode", "send", "senderr", "done"}

C5_Witness ==
    /\ recvd = <<1, 2>>
    /\ sent = <<1, 2>>
    /\ s_pc = "select"

\* C6: when Client.Rooms or Client.Subspace has returned, each positive handle
\* field of its result is an open descriptor the client received out-of-band
\* with that response, and no descriptor sent with a response was dropped on
\* receipt.
C6_ClientOwnsEveryReturnedHandle ==
    (c_pc = "idle" /\ c_result.tag # "none") =>
        /\ \A f \in Fields :
              c_result.h[f] > 0 =>
                  /\ \E i \in 1..Len(c_fds) : c_fds[i] = c_result.h[f]
                  /\ fdt[c_result.h[f]] # NoFd
        /\ dropped = 0

\* C7: when creation fails for at least one requested type of a valid
\* RoomsRequest, Room answers with one ErrorResponse whose reason names each
\* failing type with its reason (and no other type), returns no handle, and
\* has closed every handle it obtained: the descriptor table is what it was
\* before the call.
C7_RoomFailureClosesAllAndNamesEachFailure ==
    (call.op = "Room" /\ ValidRooms(call.spaces) /\ FailedTypes # {}) =>
        /\ call.resp.tag = "ErrorResponse"
        /\ NoHandles(call.resp)
        /\ Len(call.resp.reason) = Cardinality(FailedTypes)
        /\ \A typ \in FailedTypes :
              \E i \in 1..Len(call.resp.reason) :
                  call.resp.reason[i] = <<typ, call.faults[typ]>>
        /\ fdt = call.before

C7_Witness ==
    /\ call.op = "Room"
    /\ call.spaces = FlatTypes
    /\ FailedTypes = {"net", "uts"}
    /\ call.workers = 6
    /\ call.resp.tag = "ErrorResponse"

\* C8: when the child executable cannot be started, Subspace answers with an
\* ErrorResponse naming the spawn failure, returns no handle, started no
\* child, and has closed both ends of the socket pair and the duplicate meant
\* for the child: the descriptor table is what it was before the call.
C8_SubspaceSpawnFailureLeaksNothing ==
    (call.op = "Subspace" /\ ValidSubspace(call.spaces) /\ call.fault = "start") =>
        /\ ~call.panic
        /\ call.resp.tag = "ErrorResponse"
        /\ call.resp.reason = <<<<"failed to start sub service, reason: ", "start">>>>
        /\ NoHandles(call.resp)
        /\ call.child = <<>>
        /\ fdt = call.before

C8_Witness ==
    /\ call.op = "Subspace"
    /\ call.spaces = {"user", "pid"}
    /\ call.fault = "start"
    /\ call.pairs = 1
    /\ call.resp.tag = "ErrorResponse"

\* C9: a failure at any step of Subspace, the creation of the socket pair
\* included, is reported as an ErrorResponse carrying the reason of the
\* failure, and no panic escapes Subspace.
C9_SubspaceFailureIsErrorResponseNeverPanic ==
    (call.op = "Subspace" /\ ValidSubspace(call.spaces) /\ call.fault # "none") =>
        /\ ~call.panic
        /\ ~crashed
        /\ call.resp.tag = "ErrorResponse"
        /\ Len(call.resp.reason) = 1

\* C10: a valid SubspaceRequest on which every step succeeds spawns one child
\* whose clone flags are exactly the requested subset of {user, pid}, and is
\* answered by a SubspaceResponse with a positive channel handle, a positive
\* user handle iff user was requested and a positive pid handle iff pid was
\* requested (and zero otherwise), each an open descriptor of that kind.
C10_SubspaceSpawnsWithRequestedFlags ==
    (call.op = "Subspace" /\ ValidSubspace(call.spaces) /\ call.fault = "none") =>
        /\ ~call.panic
        /\ call.resp.tag = "SubspaceResponse"
        /\ Len(call.child) = 1
        /\ call.child[1].cloneflags = call.spaces
        /\ call.resp.h["conn"] > 0
        /\ fdt[call.resp.h["conn"]].kind = "sock"
        /\ \A typ \in HierTypes :
              IF typ \in call.spaces
              THEN call.resp.h[typ] > 0 /\ NsType(fdt, call.resp.h[typ]) = typ
              ELSE call.resp.h[typ] = 0
        /\ \A f \in FlatTypes : call.resp.h[f] = 0

C10_Witness ==
    /\ call.op = "Subspace"
    /\ call.spaces = {"pid"}
    /\ call.fault = "none"
    /\ call.resp.tag = "SubspaceResponse"
    /\ call.resp.h["pid"] > 0
    /\ call.resp.h["user"] = 0

\* C11: when the peer has closed its end of the channel while the service
\* loop waits for a request (nothing is left to read), the loop's next step
\* is to return, having logged the disconnect and no error, and it sends no
\* response.
C11_DisconnectEndsServeQuietly ==
    [][(/\ s_pc = "receive"
        /\ c2s = <<>>
        /\ ~EndOpen(fdt, "dupond")
        /\ s_pc' # s_pc) =>
           /\ s_pc' = "done"
           /\ s_exit' = "client disconnected"
           /\ s_exit' \notin ErrorExits
           /\ sent' = sent
           /\ s2c' = s2c]_vars

C11_Witness ==
    /\ s_pc = "done"
    /\ s_exit = "client disconnected"
    /\ c_pc = "ended"
    /\ sent = <<1>>
    /\ ~ctxDone

\* C12: once the context is cancelled, a service loop that waits for a
\* request eventually returns, unless a request arrives first; the look at
\* the context that sees the cancellation returns instead of starting another
\* receive.
C12_CancelledIdleLoopTerminates ==
    /\ (ctxDone /\ ~crashed /\ s_pc \in {"select", "receive"})
           ~> (s_pc = "done" \/ crashed \/ s_pc = "dispatch")
    /\ [][(ctxDone /\ s_pc = "select" /\ s_pc' # s_pc) =>
              (s_pc' = "done" /\ s_exit' = "context cancelled")]_vars

C12_Witness ==
    /\ ctxDone
    /\ s_pc = "done"
    /\ s_exit = "context cancelled"
    /\ c_pc = "idle"
    /\ recvd = <<>>

\* C13: cancellation never interrupts a request in flight: no step the loop
\* takes between the receipt of a request and the closing of the descriptors
\* sent with its response is the return on cancellation, and when the loop
\* has returned on cancellation every request it received was answered.
C13_CancelNeverInterruptsRequest ==
    /\ [](s_exit = "context cancelled" => sent = recvd)
    /\ [][(/\ s_pc \in {"dispatch", "encode", "send", "sent", "senderr"}
            /\ s_pc' # s_pc) => s_exit' # "context cancelled"]_vars

C13_Witness ==
    /\ ctxDone
    /\ s_pc = "sent"
    /\ s_exit = ""
    /\ sent = <<1>>

\* after a successful Subspace exchange with the service of the test's
\* process (the client holds the connection, and Serve closed what it sent),
\* no descriptor of that process refers to the child's end of the socket
\* pair, and none but the client's connection refers to the other end
ParentRetainsNoEndpoint ==
    \A k \in 1..Len(kids) :
        (kids[k].parent = 0 /\ kids[k].conn # Nil /\ s_fds = <<>>) =>
            \A n \in FdNums :
                /\ fdt[n] # SockObj("dupont", kids[k].pair)
                /\ fdt[n] = SockObj("dupond", kids[k].pair) =>
                       (n = kids[k].conn /\ ~kids[k].closed)

\* once the client closed its connection to a child service, the Serve of
\* that child eventually returns
ClosedChildTerminates ==
    \A k \in 1..MaxRequests :
        (Len(kids) >= k /\ kids[k].closed) ~> (Len(kids) >= k /\ kids[k].pc # "serving")

\* a service loop that no longer runs lost its own client: the services of
\* the other clients keep running
OnlyOwnDisconnectTerminates ==
    /\ \A j \in 1..Len(kids) : kids[j].pc # "serving" => ~PeerOpen(kids[j].pair)
    /\ s_exit = "client disconnected" => ~EndOpen(fdt, "dupond")

\* C14: after a successful Subspace exchange the parent keeps no descriptor
\* of either end of the socket pair; so when the client closes the connection
\* it received, the child's Serve eventually observes the disconnect and
\* returns; and that close ends the service loop of no other session, be it
\* the parent's or that of a service the child started.
C14_ClientCloseEndsTheChildOnly ==
    /\ []ParentRetainsNoEndpoint
    /\ ClosedChildTerminates
    /\ []OnlyOwnDisconnectTerminates
    /\ [][(\E k \in 1..Len(kids) : kids'[k].closed /\ ~kids[k].closed) =>
              s_pc' = s_pc]_vars

IsSwitch(e) == e.on = "caller" /\ e.op = "switch"
IsRestore(e) == e.on = "caller" /\ e.op = "restore"
IsFn(e) == e.op = "fn"

\* the switches into the handles passed, the restorations and the runs of fn
\* of the latest call, each in the order made
Switches == SelectSeq(call.res.sys, IsSwitch)
Restores == SelectSeq(call.res.sys, IsRestore)
FnRuns == SelectSeq(call.res.sys, IsFn)

\* the latest call took the path that runs fn on the caller's go routine
NonMountPath ==
    /\ call.op \in {"Execute", "goInAndOut"}
    /\ call.res.wth = <<>>
    /\ call.res.sys # <<>>

\* the namespaces the caller's thread was attached to before the call
AttachedBefore == call.th.att

\* the handle the latest call was passed as its i-th
Handle(i) == ExecTable[call.fds[i]]

\* C16: Execute with a handle of a user namespace among the handles passed
\* (at any place, the references before it being namespace handles) fails
\* with "cannot Execute() in different user namespace" before the thread is
\* locked and before any setns or unshare, and never runs fn.
C16_ExecuteRejectsUserHandleFirst ==
    (/\ call.op = "Execute"
     /\ \E i \in 1..Len(call.fds) :
           /\ NsType(ExecTable, call.fds[i]) = "user"
           /\ \A j \in 1..(i - 1) : NsType(ExecTable, call.fds[j]) # "") =>
        /\ call.res.panic = Failure("cannot Execute() in different user namespace", "")
        /\ call.res.sys = <<>>
        /\ call.res.seen = <<>>
        /\ call.res.th = call.th
        /\ call.res.wth = <<>>

C16_Witness ==
    /\ call.op = "Execute"
    /\ call.fds = <<3, 6>>
    /\ call.res.panic = Failure("cannot Execute() in different user namespace", "")
    /\ call.res.sys = <<>>

\* C17: on the path without a mount namespace, the handles passed being of
\* pairwise distinct types, when every switch into a handle and fn succeed,
\* fn runs exactly once, on a thread attached to every handle passed; and
\* when the call returns, the thread is attached to the namespaces it was
\* attached to before the call, and is locked as often as it was before.
C17_RunsOnceAttachedThenRestores ==
    (/\ NonMountPath
     /\ Len(Switches) = Len(call.fds)
     /\ \A i, j \in 1..Len(call.fds) : Handle(i).typ = Handle(j).typ => i = j
     /\ \A k \in 1..Len(Switches) : Switches[k].ok
     /\ \A k \in 1..Len(FnRuns) : FnRuns[k].ok) =>
        /\ Len(FnRuns) = 1
        /\ Len(call.res.seen) = 1
        /\ \A i \in 1..Len(call.fds) : call.res.seen[1][Handle(i).typ] = Handle(i).id
        /\ call.res.panic = NoPanic =>
              /\ call.res.th.att = AttachedBefore
              /\ call.res.th.locks = call.locks

C17_Witness ==
    /\ call.op = "goInAndOut"
    /\ call.fds = <<3, 5>>
    /\ call.res.panic = NoPanic
    /\ Len(call.res.seen) = 1
    /\ call.res.seen[1]["net"] = "a"
    /\ call.res.seen[1]["uts"] = "a"
    /\ call.res.th.att = AttachedBefore
    /\ call.res.th.locks = call.locks

\* C18: on the path without a mount namespace, the namespaces recorded are
\* restored in exactly the reverse of the order in which the switches into
\* the handles were made: the j-th restoration is that of the namespace
\* recorded for the j-th last switch; and all of them are restored unless a
\* restoration failed the test.
C18_RestoresInReverseOrder ==
    NonMountPath =>
        /\ \A j \in 1..Len(Restores) :
              /\ Restores[j].idx = Len(Switches) + 1 - j
              /\ Restores[j].typ = Switches[Restores[j].idx].typ
        /\ Len(Restores) <= Len(Switches)
        /\ (\A j \in 1..Len(Restores) : Restores[j].ok) => Len(Restores) = Len(Switches)

C18_Witness ==
    /\ call.op = "goInAndOut"
    /\ call.fds = <<3, 5>>
    /\ call.res.panic = NoPanic
    /\ Len(Restores) = 2
    /\ Restores[1].typ = "uts"
    /\ Restores[2].typ = "net"

\* C19: on the path without a mount namespace, when the switch into the k-th
\* handle fails, fn is never run, no switch into a later handle is made, the
\* namespaces recorded are restored in reverse order, as far as they can be
\* (a restoration that fails is passed over), and the call fails with
\* "cannot switch into ... namespace" for the type of that handle.
C19_FailedSwitchStopsAndRestores ==
    \A k \in 1..MaxHandles :
        (NonMountPath /\ Len(Switches) >= k /\ ~Switches[k].ok) =>
            /\ call.res.seen = <<>>
            /\ FnRuns = <<>>
            /\ Len(Switches) = k
            /\ Len(Restores) = k
            /\ \A j \in 1..k : Restores[j].idx = k + 1 - j
            /\ (\A j \in 1..k : Restores[j].ok) => call.res.th.att = AttachedBefore
            /\ call.res.panic = Failure("cannot switch into namespace", Switches[k].typ)

C19_Witness ==
    /\ call.op = "goInAndOut"
    /\ call.fds = <<3, 5>>
    /\ Len(Switches) = 2
    /\ Switches[1].ok
    /\ ~Switches[2].ok
    /\ Len(Restores) = 2
    /\ call.res.th.att = AttachedBefore
    /\ call.res.panic = Failure("cannot switch into namespace", "uts")

\* C20: on the path without a mount namespace, when a restoration fails
\* after fn ran, the call fails with "cannot restore ... namespace" for the
\* type of the namespace that could not be restored, and the thread stays
\* locked; the thread is unlocked only when every namespace recorded was
\* restored, so that an unlocked thread is attached to the namespaces it was
\* attached to before the call.
C20_FailedRestoreKeepsThreadLocked ==
    NonMountPath =>
        /\ \A j \in 1..Len(Restores) :
              (FnRuns # <<>> /\ FnRuns[1].ok /\ ~Restores[j].ok) =>
                  /\ call.res.panic = Failure("cannot restore namespace", Restores[j].typ)
                  /\ call.res.th.locks = call.locks + 1
                  /\ \A e \in 1..Len(call.res.sys) : call.res.sys[e].op # "unlock"
        /\ call.res.th.locks <= call.locks =>
              /\ Len(Restores) = Len(Switches)
              /\ \A j \in 1..Len(Restores) : Restores[j].ok
              /\ call.res.th.att = AttachedBefore

C20_Witness ==
    /\ call.op = "goInAndOut"
    /\ call.fds = <<3>>
    /\ Len(call.res.seen) = 1
    /\ Len(Restores) = 1
    /\ ~Restores[1].ok
    /\ call.res.panic = Failure("cannot restore namespace", "net")
    /\ call.res.th.locks = call.locks + 1
    /\ call.res.th.att["net"] = "a"

\* the separate go routine has done everything but closing panicCh and
\* returning
WorkerFinished == call.w \in {"closing", "exited"}

\* the failure of fn itself, as opposed to a failure of the setup
FnFailed == Failure("fn failed", "")

\* C21: with a mount namespace handle among the handles, fn runs exactly once
\* and on the separate go routine, which locked a thread other than the
\* caller's and never unlocks it, so that its thread is terminated with it
\* and never reused; the caller does not get past its receiving from panicCh
\* before the go routine has finished, and the caller's thread stays
\* attached to the namespaces it was attached to before the call.
C21_MountPathRunsOnSeparateThread ==
    call.op = "goSeparate" =>
        /\ Len(FnRuns) <= 1
        /\ \A e \in 1..Len(FnRuns) : FnRuns[e].on = "worker"
        /\ (call.pc # "waiting" /\ call.res.panic \in {NoPanic, FnFailed}) =>
              Len(FnRuns) = 1
        /\ call.w # "started" =>
              /\ call.tid \in Threads \ {CallerTid}
              /\ call.res.wth.locks = 1
        /\ call.w = "exited" => call.retired = {call.tid}
        /\ call.pc # "waiting" => WorkerFinished
        /\ call.res.th.att = AttachedBefore
        /\ \A e \in 1..Len(call.res.sys) :
              call.res.sys[e].op \in {"switch", "unshare", "fn"} =>
                  call.res.sys[e].on = "worker"

C21_Witness ==
    /\ call.op = "goSeparate"
    /\ call.fds = <<3, 7>>
    /\ call.pc = "returned"
    /\ call.w = "exited"
    /\ Len(FnRuns) = 1
    /\ call.res.seen[1]["mnt"] = "a"
    /\ call.res.seen[1]["net"] = "a"
    /\ call.res.th.att["net"] = "host"
    /\ call.tid # CallerTid

\* C22: with a mount namespace handle among handles of distinct types, when
\* fn starts on the separate go routine its thread is attached to the
\* namespace of each handle passed and, for each of the types cgroup, ipc,
\* net, pid, time and uts no handle was passed for, to the namespace the
\* caller's thread was attached to when Execute was called.
C22_WorkerAttachedLikeCallerButOverrides ==
    (/\ call.op = "goSeparate"
     /\ call.res.seen # <<>>
     /\ \A i, j \in 1..Len(call.fds) : Handle(i).typ = Handle(j).typ => i = j) =>
        /\ \A i \in 1..Len(call.fds) :
              call.res.seen[1][Handle(i).typ] = Handle(i).id
        /\ \A k \in 1..Len(pickupTypes) :
              pickupTypes[k] \notin {Handle(i).typ : i \in 1..Len(call.fds)} =>
                  call.res.seen[1][pickupTypes[k]] = AttachedBefore[pickupTypes[k]]

C22_Witness ==
    /\ call.op = "goSeparate"
    /\ call.fds = <<7, 3>>
    /\ AttachedBefore["uts"] = "t"
    /\ Len(call.res.seen) = 1
    /\ call.res.seen[1]["uts"] = "t"
    /\ call.res.seen[1]["net"] = "a"
    /\ call.res.seen[1]["mnt"] = "a"
    /\ call.res.seen[1]["ipc"] = "host"

\* what C23 says of every state of a call with a mount namespace handle
FailureHandedToCaller ==
    call.op = "goSeparate" =>
        /\ call.pc \in {"returned", "panicked"} =>
              /\ call.raised = call.res.panic
              /\ WorkerFinished
        /\ call.pc = "panicked" => call.raised # NoPanic
        /\ call.res.panic \notin {NoPanic, FnFailed} => FnRuns = <<>>
        /\ Len(call.got) = (IF call.pc = "waiting" THEN 0 ELSE 1)

\* C23: with a mount namespace handle among the handles, a failure of the
\* separate go routine's setup or of fn is recovered there and raised again
\* on the caller's go routine once the separate go routine has finished;
\* fn is not run when the setup failed; and whether there was a failure or
\* not, the caller's receiving from panicCh ends, and it ends once.
C23_FailureReraisedAndCallerUnblocked ==
    /\ []FailureHandedToCaller
    /\ (call.op = "goSeparate" /\ call.pc = "waiting") ~>
           (call.op = "goSeparate" /\ call.pc \in {"returned", "panicked"}
                                   /\ Len(call.got) = 1)

C23_Witness ==
    /\ call.op = "goSeparate"
    /\ call.pc = "panicked"
    /\ call.w = "exited"
    /\ call.raised = Failure("cannot switch into mnt namespace", "")
    /\ call.got = <<call.raised>>
    /\ FnRuns = <<>>

\* C24: when Execute returns, the descriptors open are those that were open
\* before the call, and no closing is left scheduled for the end of the test:
\* Execute itself closed, once, every descriptor it opened.
C24_ExecuteClosesWhatItOpened ==
    (call.op = "Execute" /\ call.res.panic = NoPanic) =>
        /\ call.res.t = ExecTable
        /\ call.res.cleanups = <<>>

\* the order in which SubspaceResponse.EncodeFds goes through the fields
SubOrder == <<"conn", "user", "pid">>

ShapeOrder(tag) == IF tag = "RoomsResponse" THEN RoomOrder ELSE SubOrder

\* the place of the descriptor fd in the sequence fds, 0 when it is not in it
PlaceOf(fds, fd) ==
    IF \E i \in 1..Len(fds) : fds[i] = fd
    THEN CHOOSE i \in 1..Len(fds) : fds[i] = fd
    ELSE 0

\* the latest call of EncodeFds, also once DecodeFds followed it
Encoded == call.op = "EncodeFds" \/ (call.op = "DecodeFds" /\ call.fds = call.enc.fds)

\* C25: EncodeFds returns the fields of the response that are greater than
\* 0, in the order cgroup, ipc, mnt, net, time, uts for a RoomsResponse and
\* conn, user, pid for a SubspaceResponse, and sets these fields to 0; a
\* field that is 0 or less is not returned and keeps its value, so that as
\* many descriptors are returned as fields were greater than 0.
C25_EncodeFdsMovesPositiveFieldsInOrder ==
    Encoded =>
        /\ Len(call.enc.fds) = Cardinality({f \in ShapeFields(call.tag) : call.h[f] > 0})
        /\ \A f \in ShapeFields(call.tag) :
              IF call.h[f] > 0
              THEN call.enc.h[f] = 0 /\ PlaceOf(call.enc.fds, call.h[f]) > 0
              ELSE call.enc.h[f] = call.h[f] /\ PlaceOf(call.enc.fds, call.h[f]) = 0
        /\ \A a, b \in 1..Len(ShapeOrder(call.tag)) :
              (/\ a < b
               /\ call.h[ShapeOrder(call.tag)[a]] > 0
               /\ call.h[ShapeOrder(call.tag)[b]] > 0) =>
                  PlaceOf(call.enc.fds, call.h[ShapeOrder(call.tag)[a]])
                      < PlaceOf(call.enc.fds, call.h[ShapeOrder(call.tag)[b]])

C25_Witness ==
    /\ call.op = "EncodeFds"
    /\ call.tag = "RoomsResponse"
    /\ call.h["cgroup"] = Nil
    /\ call.h["ipc"] = 0
    /\ call.h["net"] > 0
    /\ call.h["uts"] > 0
    /\ call.h["mnt"] > 0
    /\ call.h["time"] = 0
    /\ call.enc.fds = <<call.h["mnt"], call.h["net"], call.h["uts"]>>
    /\ call.enc.h["cgroup"] = Nil
    /\ call.enc.h["net"] = 0

\* the latest call of DecodeFds followed a call of EncodeFds, on a response
\* which, when it is a SubspaceResponse, had a connection
RoundTrip ==
    /\ call.op = "DecodeFds"
    /\ call.fds = call.enc.fds
    /\ call.dh = call.enc.h
    /\ call.tag = "SubspaceResponse" => call.h["conn"] > 0

\* after the latest call of DecodeFds the field f holds an open descriptor of
\* what the descriptor fd referred to before the call
HoldsAgain(f, fd) ==
    /\ call.dec.h[f] > 0
    /\ call.dec.t[call.dec.h[f]] = UnitTable[fd]

\* C26 as claimed: EncodeFds followed by DecodeFds leaves every field that
\* held a handle with a handle of its type, and every other field 0; between
\* the two calls every field is 0.
C26_RoundTripRestoresHandlesAndZeroes ==
    /\ (call.op = "EncodeFds" /\ (call.tag = "SubspaceResponse" => call.h["conn"] > 0)) =>
           \A f \in ShapeFields(call.tag) : call.enc.h[f] = 0
    /\ RoundTrip =>
           /\ ~call.dec.panic
           /\ \A f \in ShapeFields(call.tag) :
                 /\ call.enc.h[f] = 0
                 /\ IF call.h[f] > 0 THEN HoldsAgain(f, call.h[f]) ELSE call.dec.h[f] = 0

\* C26, amended: EncodeFds followed by DecodeFds leaves every field that
\* held a handle with a handle of its type, and every other field with the
\* value it had, 0 or less; between the two calls the fields that held a
\* handle are 0 and the others have the value they had, so that no field is
\* greater than 0; no descriptor is closed.
C26_RoundTripRestoresHandles ==
    /\ (call.op = "EncodeFds" /\ (call.tag = "SubspaceResponse" => call.h["conn"] > 0)) =>
           \A f \in ShapeFields(call.tag) :
               call.enc.h[f] = (IF call.h[f] > 0 THEN 0 ELSE call.h[f])
    /\ RoundTrip =>
           /\ ~call.dec.panic
           /\ call.dec.t = UnitTable
           /\ \A f \in ShapeFields(call.tag) :
                 /\ call.enc.h[f] = (IF call.h[f] > 0 THEN 0 ELSE call.h[f])
                 /\ IF call.h[f] > 0
                    THEN HoldsAgain(f, call.h[f])
                    ELSE call.dec.h[f] = call.h[f]

C26_Witness ==
    /\ RoundTrip
    /\ call.tag = "SubspaceResponse"
    /\ call.h["user"] = Nil
    /\ call.h["pid"] > 0
    /\ call.enc.fds = <<call.h["conn"], call.h["pid"]>>
    /\ call.enc.h["conn"] = 0
    /\ call.dec.h["conn"] = call.h["conn"]
    /\ call.dec.h["pid"] = call.h["pid"]
    /\ call.dec.h["user"] = Nil

\* the types of namespaces DecodeFds has fields for in a response of the shape
Wanted(tag) == ShapeFields(tag) \ {"conn"}

\* the places of the latest call's descriptors as from the place from, that
\* hold a handle of the type
PlacesOf(typ, from) == {i \in from..Len(call.fds) : NsType(UnitTable, call.fds[i]) = typ}

\* what C27 says of the descriptors DecodeFds was passed as from the place
\* from: no panic, a descriptor that is no handle of a wanted type is closed,
\* a field no handle was passed for stays 0, and the field of a type a handle
\* was passed for holds a handle passed for it, still open
Distributed(from) ==
    /\ ~call.dec.panic
    /\ \A i \in from..Len(call.fds) :
          NsType(UnitTable, call.fds[i]) \notin Wanted(call.tag) =>
              /\ call.dec.t[call.fds[i]] = NoFd
              /\ \A f \in Fields : call.dec.h[f] # call.fds[i] \/ (from > 1 /\ f = "conn")
    /\ \A typ \in Wanted(call.tag) :
          IF PlacesOf(typ, from) = {}
          THEN call.dec.h[typ] = 0
          ELSE /\ call.dec.h[typ] \in {call.fds[i] : i \in PlacesOf(typ, from)}
               /\ call.dec.t[call.dec.h[typ]] = UnitTable[call.dec.h[typ]]
    /\ \A f \in Fields \ ShapeFields(call.tag) : call.dec.h[f] = 0

\* the latest call of DecodeFds was made on a zero response
DecodedAfresh == call.op = "DecodeFds" /\ call.dh = ZeroH /\ call.fds # <<>>

\* C27 as claimed: DecodeFds closes every descriptor passed that is no
\* handle of a type the response has a field for, without failing, leaves
\* the fields it was passed no handle for 0, and distributes the others.
C27_DecodeFdsClosesEveryUnwantedHandle ==
    DecodedAfresh =>
        /\ Distributed(1)
        /\ call.tag = "RoomsResponse" => call.dec.h["conn"] = 0

\* C27, amended: RoomsResponse.DecodeFds does so for every descriptor
\* passed; SubspaceResponse.DecodeFds stores the first descriptor passed as
\* Conn whatever it refers to, without closing it, and does so for the
\* descriptors after the first.
C27_DecodeFdsClosesUnwantedHandles ==
    DecodedAfresh =>
        IF call.tag = "RoomsResponse"
        THEN Distributed(1)
        ELSE /\ Distributed(2)
             /\ call.dec.h["conn"] = call.fds[1]
             /\ (\A i \in 2..Len(call.fds) : call.fds[i] # call.fds[1]) =>
                    call.dec.t[call.fds[1]] = UnitTable[call.fds[1]]

C27_Witness ==
    /\ DecodedAfresh
    /\ call.tag = "RoomsResponse"
    /\ Len(call.fds) = 2
    /\ UnitTable[call.fds[1]] = DirObj
    /\ NsType(UnitTable, call.fds[2]) = "net"
    /\ call.dec.t[call.fds[1]] = NoFd
    /\ call.dec.h["net"] = call.fds[2]
    /\ call.dec.h["uts"] = 0

\* C28: a namespace handle Client.Rooms or Client.Subspace returned is named
\* by one of the closings scheduled for the end of the node, and by one only:
\* it is closed then, and it is not closed twice.
C28_ReturnedHandlesClosedExactlyOnce ==
    /\ (c_pc = "idle" /\ c_result.tag # "none") =>
           \A f \in Fields \ {"conn"} :
               c_result.h[f] > 0 =>
                   \E i \in 1..Len(cleanups) : cleanups[i][f] = c_result.h[f]
    /\ \A i, j \in 1..Len(cleanups) :
       \A f, g \in Fields :
           (cleanups[i][f] > 0 /\ cleanups[i][f] = cleanups[j][g]) => (i = j /\ f = g)

\* the descriptors of the table t that refer to an end of the socket pair
PairFds(t, pair) == {n \in FdNums : t[n].kind = "sock" /\ t[n].id = pair /\ t[n] # UdpObj}

\* C29: NewUnixConn leaves the descriptor it was passed closed whenever it
\* fails, and no other descriptor open that was not open before; when it
\* succeeds the descriptor passed is closed as well and one descriptor, the
\* connection's, is open in its place. When NewPair fails, no descriptor of
\* the socket pair is open.
C29_NewUnixConnOwnsTheDescriptor ==
    /\ (call.op = "NewUnixConn" /\ call.udsfd >= 0) =>
           /\ fdt[call.udsfd] = NoFd
           /\ IF call.r.err # ""
              THEN /\ call.r.conn = Nil
                   /\ OpenFds(fdt) = OpenFds(UnitTable) \ {call.udsfd}
              ELSE /\ call.r.conn \in FdNums
                   /\ fdt[call.r.conn] = UnitTable[call.udsfd]
                   /\ OpenFds(fdt) = (OpenFds(UnitTable) \ {call.udsfd}) \cup {call.r.conn}
    /\ (call.op = "NewUnixConn" /\ call.udsfd < 0) =>
           /\ call.r.err # ""
           /\ fdt = UnitTable
    /\ call.op = "NewPair" =>
           IF call.r.err # ""
           THEN /\ PairFds(fdt, 2) = {}
                /\ fdt = UnitTable
           ELSE /\ PairFds(fdt, 2) = {call.r.dupond, call.r.dupont}
                /\ fdt[call.r.dupond] = SockObj("dupond", 2)
                /\ fdt[call.r.dupont] = SockObj("dupont", 2)
                /\ OpenFds(fdt) = OpenFds(UnitTable) \cup PairFds(fdt, 2)

C29_Witness ==
    /\ call.op = "NewUnixConn"
    /\ call.udsfd >= 0
    /\ UnitTable[call.udsfd] = UdpObj
    /\ call.r.err = "not a unix domain socket"
    /\ fdt[call.udsfd] = NoFd

\* C30: EnterTransient with a type other than cgroup, ipc, net and uts fails
\* with "unsupported type", before it locks the thread and before it opens
\* or unshares anything; with one of these four types it does not fail so.
C30_EnterTransientOnlyForFlatReturnableTypes ==
    call.op = "EnterTransient" =>
        IF call.typ \in {"cgroup", "ipc", "net", "uts"}
        THEN call.res.panic # Failure("unsupported type", call.typ)
        ELSE /\ call.res.panic = Failure("unsupported type", call.typ)
             /\ call.res.th = call.th
             /\ call.res.sys = <<>>
             /\ call.res.t = UnitTable

\* the types EnterTransient is documented to be of use for
Enterable == {"cgroup", "ipc", "net", "uts"}

\* C31: for the types cgroup, ipc, net and uts, EnterTransient when it
\* returns has locked the thread and attached it to a new namespace of the
\* type, other than the one it was attached to. The function it returned
\* attaches the thread to that one again, closes the descriptor kept of it
\* and unlocks the thread; when the attaching fails it panics with the name
\* of the type, and the thread stays locked.
C31_EnterAndLeaveTransient ==
    (/\ call.op = "EnterTransient"
     /\ call.typ \in Enterable
     /\ call.res.panic = NoPanic) =>
        /\ call.res.th.locks = call.locks + 1
        /\ call.res.th.att[call.typ] # call.th.att[call.typ]
        /\ \A typ \in ExecTypes \ {call.typ} : call.res.th.att[typ] = call.th.att[typ]
        /\ call.res.t[call.res.cur] = NsObj(call.typ, call.th.att[call.typ])
        /\ call.left # <<>> =>
              IF call.left[1].panic = NoPanic
              THEN /\ call.left[1].th = call.th
                   /\ call.left[1].t = UnitTable
                   /\ fdt = UnitTable
              ELSE /\ call.left[1].panic =
                         Failure("leaving from EnterTransient: cannot restore original namespace",
                                 call.typ)
                   /\ call.left[1].th = call.res.th

C31_Witness ==
    /\ call.op = "EnterTransient"
    /\ call.typ = "net"
    /\ call.res.th.att["net"] = "t"
    /\ call.left # <<>>
    /\ call.left[1].panic = NoPanic
    /\ call.left[1].th.att["net"] = "host"
    /\ call.left[1].th.locks = call.locks
    /\ fdt = UnitTable


\* ------------------------------------------------- Room's units of work

\* the units of work in progress after the first n steps of Room's schedule:
\* started with go, their result not yet received
InProgress(sched, n) ==
    {typ \in RoomFields :
        /\ \E i \in 1..n : sched[i] = <<"go", typ>>
        /\ ~\E i \in 1..n : sched[i] = <<"receive", typ>>}

\* a call of Room that got to the units of work of two types or more
RoomOfMany ==
    /\ call.op = "Room"
    /\ call.spaces \subseteq validSpaces
    /\ Cardinality(call.spaces) >= 2

Distinct(fds) == \A i, j \in 1..Len(fds) : fds[i] = fds[j] => i = j

\* the step of Serve that follows its attempt to send
ClosingSent == s_pc \in {"sent", "senderr"} /\ s_pc' # s_pc

\* C33: after Serve attempted to send a response, it closes every descriptor
\* it handed to the send exactly once, whether the send succeeded or failed:
\* the descriptors handed to the send are those EncodeFds took from the
\* response, the step that follows the send closes each of them and keeps
\* none for another close; a failed send ends the loop, no second send is
\* attempted
C33_SentHandlesClosedOnceAndSendFailureEnds ==
    [][/\ (s_pc = "send" /\ s_pc' # s_pc) =>
             /\ s_pc' \in {"sent", "senderr"}
             /\ s_fds' = EncodeFds(s_resp).fds
       /\ ClosingSent =>
             /\ Distinct(s_fds)
             /\ \A i \in 1..Len(s_fds) : fdt'[s_fds[i]] = NoFd
             /\ s_fds' = <<>>
             /\ s_pc = "sent" => s_pc' = "select"
             /\ s_pc = "senderr" =>
                    /\ s_pc' = "done"
                    /\ s_exit' = "cannot send"
                    /\ sent' = sent
       /\ (s_pc \notin {"send", "sent", "senderr"} /\ s_pc' # "sent" /\ s_pc' # "senderr")
             => (s_fds = <<>> /\ s_fds' = <<>>)
       /\ s_pc = "done" => s_pc' = "done" /\ sent' = sent]_vars

\* Serve returned on a failed send, having closed the handles Room gave it
C33_Witness ==
    /\ s_pc = "done"
    /\ s_exit = "cannot send"
    /\ call.op = "Room"
    /\ call.resp.tag = "RoomsResponse"
    /\ \E f \in RoomFields : call.resp.h[f] > 0 /\ fdt[call.resp.h[f]] = NoFd
    /\ s_fds = <<>>


\* C34: on every exit path of Serve after a request was dispatched, the
\* failure to encode the response included, every handle created for that
\* request is closed: when Serve returned because it could not encode or
\* could not send the response, no handle of the response Room or Subspace
\* returned for the request is left open
C34_ServeExitsLeaveNoHandleOfTheRequestOpen ==
    (/\ ~crashed
     /\ s_pc = "done"
     /\ s_exit \in {"cannot encode response", "cannot send"}
     /\ call.op \in {"Room", "Subspace"}) =>
        \A f \in Fields : call.resp.h[f] > 0 => fdt[call.resp.h[f]] = NoFd


\* ------------------------------------- Serve: messages it does not handle

\* Serve looks at a message that is no request it handles
NotHandled ==
    /\ s_pc = "dispatch"
    /\ s_req.tag \notin {"SubspaceRequest", "RoomsRequest"}
    /\ s_pc' # s_pc

\* C35: a message Serve cannot decode, or a request that is neither a
\* SubspaceRequest nor a RoomsRequest, ends the session: Serve returns
\* without calling Room or Subspace and without sending a response, then and
\* ever after; nothing but the service's end of the connection is closed and
\* no panic is raised, so the process goes on
C35_UnhandledMessageEndsTheSessionOnly ==
    [][/\ NotHandled =>
             /\ s_pc' = "done"
             /\ s_exit' = (IF s_req.tag = "undecodable"
                           THEN "cannot decode incoming request"
                           ELSE "unhandled request")
             /\ call' = call
             /\ kids' = kids
             /\ s2c' = s2c
             /\ sent' = sent
             /\ s_fds' = s_fds
             /\ crashed' = FALSE
             /\ fdt' = Close(fdt, ServiceConn)
       /\ (s_pc = "done" /\ s_exit \in {"cannot decode incoming request", "unhandled request"}) =>
             /\ s_pc' = "done"
             /\ sent' = sent
             /\ call' = call
             /\ crashed' = FALSE]_vars

\* Serve returned on a request of another type after it had served a request,
\* and the test went on to its end
C35_Witness ==
    /\ s_pc = "done"
    /\ s_exit = "unhandled request"
    /\ s_req.tag = "UnhandlebarRequest"
    /\ recvd = <<1, 2>>
    /\ sent = <<1>>
    /\ c_pc = "ended"
    /\ ~crashed


\* ----------------------------------------- Subspace: the child it started

\* the steps of Subspace that can fail once the child was started
AfterStart == {"dupondfile", "dup", "openuser", "openpid"}

\* the latest call of Subspace started a child and failed at a later step
FailedAfterStart ==
    /\ call.op = "Subspace"
    /\ call.fault \in AfterStart
    /\ Len(call.child) = 1

\* every child that was started has one background go routine waiting for it
ReapedOnce ==
    /\ \A k \in 1..Len(kids) : kids[k].waits = 1
    /\ call.op = "Subspace" => \A i \in 1..Len(call.child) : call.child[i].waits = 1
    /\ FailedAfterStart => call.resp.tag = "ErrorResponse"

\* after a Subspace that failed once the child was started, no descriptor of
\* the parent refers to either end of the socket pair made for that child
FailedParentHoldsNoEndpoint ==
    FailedAfterStart =>
        \A n \in FdNums :
            /\ fdt[n] # SockObj("dupond", call.child[1].pair)
            /\ fdt[n] # SockObj("dupont", call.child[1].pair)

\* the child of a Subspace that failed after starting it eventually is no
\* longer serving: its receive reports the disconnect and its Serve returns
OrphanTerminates ==
    \A k \in 1..MaxRequests :
        (/\ FailedAfterStart
         /\ Len(kids) >= k
         /\ kids[k].pair = call.child[1].pair)
            ~> (Len(kids) >= k /\ kids[k].pc # "serving")

\* C36: every child Subspace started is waited for by one background go
\* routine, also when a later step of Subspace fails; after a Subspace that
\* failed once the child was started the parent holds no descriptor of
\* either end of the child's socket pair, so the child's Serve observes the
\* disconnect and terminates
C36_StartedChildIsReapedAndOrphanTerminates ==
    /\ []ReapedOnce
    /\ []FailedParentHoldsNoEndpoint
    /\ OrphanTerminates

\* the child of a failed Subspace has returned from Serve on the disconnect
C36_Witness ==
    /\ FailedAfterStart
    /\ call.fault = "openpid"
    /\ Len(kids) >= 1
    /\ kids[1].pair = call.child[1].pair
    /\ kids[1].waits = 1
    /\ kids[1].exit = "client disconnected"


\* ------------------------------------------ newNamespace, step by step

\* the places of step in the steps sys of a unit of work
At(sys, step) == {i \in 1..Len(sys) : sys[i] = step}

\* step a is in sys, and before every step b in it
Before(sys, a, b) ==
    /\ At(sys, a) # {}
    /\ \A i \in At(sys, a), j \in At(sys, b) : i < j

\* the unit of work of the latest call of Room for typ, when typ was
\* requested in a valid request
UnitRan(typ) ==
    /\ call.op = "Room"
    /\ call.spaces \subseteq validSpaces
    /\ typ \in call.spaces

\* what C37 tells of the unit u that created a namespace of typ under fault
NewNamespaceInOrder(typ, fault, u) ==
    /\ u.sys # <<>>
    /\ u.sys[1] = "lock"
    /\ At(u.sys, "lock") = {1}
    /\ At(u.sys, "unlock") = {}
    /\ typ = "mnt" =>
           /\ At(u.sys, "unshare") # {} => Before(u.sys, "unsharefs", "unshare")
           /\ At(u.sys, "opennew") # {} =>
                  /\ Before(u.sys, "mount", "opennew")
                  /\ Before(u.sys, "unshare", "mount")
    /\ typ # "mnt" => At(u.sys, "unsharefs") = {} /\ At(u.sys, "mount") = {}
    /\ fault # "opencaller" =>
           /\ Cardinality(At(u.sys, "opencaller")) = 1
           /\ Len(u.sys) >= 2
           /\ u.sys[Len(u.sys) - 1] = "setns"
           /\ u.sys[Len(u.sys)] = "close"
           /\ Cardinality(At(u.sys, "setns")) = 1
           /\ Cardinality(At(u.sys, "close")) = 1
    /\ fault = "opencaller" =>
           At(u.sys, "setns") = {} /\ At(u.sys, "close") = {}
    /\ fault # "none" => u.fd = 0 /\ u.err # ""
    /\ fault = "none" => u.fd > 0 /\ u.err = "" /\ At(u.sys, "opennew") # {}

\* C37: newNamespace locks its go routine to the thread and never unlocks
\* it; for a mount namespace it unshares the filesystem attributes before
\* it unshares the namespace, and remounts / as private before it opens the
\* handle it returns; on every path after the handle of the original
\* namespace was opened it last switches back to that namespace and closes
\* that handle, once; when a step failed it returns no handle
C37_NewNamespaceStepsInOrder ==
    /\ \A typ \in RoomFields :
           UnitRan(typ) => NewNamespaceInOrder(typ, call.faults[typ], call.units[typ])
    /\ call.op = "Room" =>
           \A n \in FdNums : \A typ \in RoomFields : fdt[n] # NsObj(typ, "caller")

\* Room created a mount namespace
C37_Witness ==
    /\ UnitRan("mnt")
    /\ call.faults["mnt"] = "none"
    /\ call.spaces = {"mnt"}
    /\ call.units["mnt"].sys =
           <<"lock", "opencaller", "unsharefs", "unshare", "mount", "opennew",
             "setns", "close">>
    /\ call.resp.h["mnt"] = call.units["mnt"].fd


\* --------------------------------------- Subspace: what it closes on failure

\* C38: on its failure paths Subspace closes only descriptors it opened for
\* the request: a handle variable that still has its absent value (0, as the
\* user handle has when only a PID namespace was requested) is not passed to
\* close, so every descriptor that was open before the call, descriptor 0
\* included, is still open after it and refers to what it referred to
C38_SubspaceFailureClosesOnlyItsOwn ==
    (/\ call.op = "Subspace"
     /\ ValidSubspace(call.spaces)
     /\ call.fault # "none"
     /\ ~call.panic) =>
        \A n \in FdNums : call.before[n] # NoFd => fdt[n] = call.before[n]


\* --------------------------------------- DecodeFds: every handle accounted

\* the fields of the decoded response that hold the descriptor fd
StoredIn(fd) == {f \in Fields : call.dec.h[f] = fd}

\* C39: after DecodeFds returned, every handle of the set it was given is
\* accounted for exactly once: it is stored in exactly one field of the
\* response and open, or it is closed and in no field; also when two handles
\* of the set are of the same wanted type
C39_DecodeFdsAccountsForEveryHandle ==
    (/\ call.op = "DecodeFds"
     /\ call.dh = ZeroH
     /\ call.fds # <<>>
     /\ Distinct(call.fds)) =>
        /\ ~call.dec.panic
        /\ \A i \in 1..Len(call.fds) :
               \/ /\ Cardinality(StoredIn(call.fds[i])) = 1
                  /\ call.dec.t[call.fds[i]] = UnitTable[call.fds[i]]
               \/ /\ StoredIn(call.fds[i]) = {}
                  /\ call.dec.t[call.fds[i]] = NoFd


\* ------------------------------- SubspaceResponse.DecodeFds on any input

\* C40: SubspaceResponse.DecodeFds is total: given no descriptor it returns
\* without failure and leaves every field absent and the descriptor table as
\* it was; given one or more, it stores the first as the connection whatever
\* that descriptor refers to, and matches only the others with user and pid
C40_SubspaceDecodeFdsIsTotal ==
    (call.op = "DecodeFds" /\ call.tag = "SubspaceResponse") =>
        /\ ~call.dec.panic
        /\ call.fds = <<>> =>
               /\ \A f \in Fields : call.dec.h[f] <= 0
               /\ call.dec.t = UnitTable
        /\ call.fds # <<>> =>
               /\ call.dec.h["conn"] = call.fds[1]
               /\ \A f \in {"user", "pid"} :
                      (call.dh[f] <= 0 /\ call.dec.h[f] > 0) =>
                          \E i \in 2..Len(call.fds) :
                              /\ call.fds[i] = call.dec.h[f]
                              /\ NsType(UnitTable, call.fds[i]) = f

====
